---- MODULE Spec2Model ----
(***************************************************************************)
(* Pod Security admission policy checks (k8s.io/pod-security-admission/    *)
(* policy): the check catalog, version resolution, override suppression,   *)
(* aggregation of check results, and the rule implementations with their   *)
(* field-path and violation helpers.                                       *)
(*                                                                         *)
(* Go values are modelled as follows.  A pointer is a sequence of length   *)
(* 0 (nil) or 1; a slice is a sequence; a sets.String is a set of strings  *)
(* whose List() is rendered through SortOrder; a *field.Path is the        *)
(* sequence of its segments from the root; a PathFn or ErrFn closure is    *)
(* nil or a one-element sequence holding what the closure captured.  A     *)
(* nil dereference that the code does not guard is the value Panic.        *)
(*                                                                         *)
(* Spec is the process: registration at startup, then evaluations one at   *)
(* a time.  ConcurrentSpec runs several evaluations over the catalog at    *)
(* the same time.  PathSpec, ViolationsSpec and VisitorSpec exercise the   *)
(* field locations, the violations accumulator, and the container visitor  *)
(* with the runAsNonRoot rule on inputs of their own.  RuleSpec calls each  *)
(* rule implementation on its own; there verdict holds the implementation  *)
(* called next to what it returned.                                        *)
(***************************************************************************)
EXTENDS Integers, Sequences, FiniteSets, TLC

VARIABLES
    registry,                  \* the process-wide catalog, in registration order
    initQueue,                 \* init() functions that have not run yet, in run order
    regStatus,                 \* outcome of the last addCheck call
    phase,                     \* "startup" | "idle" | "pending" | "done"
    req,                       \* the evaluation request being served
    result,                    \* what the last evaluation returned
    pkg,                       \* the package-level values of package policy
    frozen,                    \* registry and pkg as they were when startup ended
    readers,                   \* concurrent evaluations: each one's position in the catalog
    locations,                 \* PathFn values built so far, each with the calls that built it
    realization,               \* the last realization of one of locations
    accumulator,               \* a violations accumulator
    addCalls,                  \* the Add calls made on accumulator, in order
    invoked,                   \* the error constructors those calls invoked, in order
    workload,                  \* a pod spec and options handed to the visitor and a rule
    visits,                    \* the visitor calls visitContainers made for workload
    verdict                    \* what the rule returned for workload

\* the variables of the catalog, the evaluator and the package
engineVars == <<registry, initQueue, regStatus, phase, req, result, pkg, frozen>>

\* the variables of the components exercised on their own
componentVars == <<readers, locations, realization, accumulator, addCalls, invoked,
                   workload, visits, verdict>>

vars == <<engineVars, componentVars>>

-----------------------------------------------------------------------------
(* Bounds of the model *)

\* longest spec.containers list of a submitted workload
MaxContainers == 2
\* highest minor version a request asks for
MaxMinor == 28

-----------------------------------------------------------------------------
(* Go basics *)

Nil == <<>>
Ptr(x) == <<x>>
Deref(p) == p[1]

\* an int held in an interface{} value (a []string is held as a sequence)
GoInt(n) == [int |-> n]

Panic == [panic |-> "invalid memory address or nil pointer dereference"]
IsPanic(r) == "panic" \in DOMAIN r

RECURSIVE Join(_, _)
\* strings.Join
Join(elems, sep) ==
    IF Len(elems) = 0 THEN ""
    ELSE IF Len(elems) = 1 THEN elems[1]
    ELSE elems[1] \o sep \o Join(Tail(elems), sep)

\* fmt's %q of a string without special characters
Quote(s) == "\"" \o s \o "\""

\* Byte order of the strings the model puts into a sets.String.
SortOrder ==
    << "", "0", "443", "80", "CHOWN", "NET_ADMIN", "NET_BIND_SERVICE",
       "RuntimeDefault", "SYS_ADMIN", "Unconfined",
       "awsElasticBlockStore", "azureDisk", "azureFile", "bad_t", "cephfs", "cinder",
       "container.seccomp.security.alpha.kubernetes.io/a=\"unconfined\"",
       "container.seccomp.security.alpha.kubernetes.io/b=\"unconfined\"",
       "container_t", "fc", "flexVolume", "flocker", "gcePersistentDisk", "gitRepo",
       "glusterfs", "hostPath", "iscsi", "nfs", "other_t", "photonPersistentDisk",
       "portworxVolume", "quobyte", "rbd", "scaleIO",
       "seccomp.security.alpha.kubernetes.io/pod=\"unconfined\"",
       "storageos", "unknown", "vsphereVolume" >>

\* sets.String.List(): the members, sorted
List(set) == SelectSeq(SortOrder, LAMBDA s : s \in set)

\* pluralize(singular, plural, count)
pluralize(singular, plural, count) == IF count = 1 THEN singular ELSE plural

RECURSIVE QuoteAll(_)
QuoteAll(items) ==
    IF Len(items) = 0 THEN <<>> ELSE <<Quote(items[1])>> \o QuoteAll(Tail(items))

\* joinQuote(items): each item quoted, comma separated
joinQuote(items) == Join(QuoteAll(items), ", ")

-----------------------------------------------------------------------------
(* api.Version: a (major, minor) pair *)

MajorMinorVersion(major, minor) == <<major, minor>>

\* v.Older(o)
Older(v, o) == IF v[1] # o[1] THEN v[1] < o[1] ELSE v[2] < o[2]

LevelBaseline == "baseline"
LevelRestricted == "restricted"

-----------------------------------------------------------------------------
(* field.Path and field.Error *)

NewPath(name) == << [name |-> name] >>
PathChild(p, name) == Append(p, [name |-> name])
PathIndex(p, i) == Append(p, [index |-> ToString(i)])
PathKey(p, k) == Append(p, [index |-> k])

RECURSIVE PathString(_)
\* (*field.Path).String()
PathString(p) ==
    IF Len(p) = 0 THEN "<nil>"
    ELSE LET last == p[Len(p)]
             front == SubSeq(p, 1, Len(p) - 1)
         IN  IF "index" \in DOMAIN last
             THEN PathString(front) \o "[" \o last.index \o "]"
             ELSE IF Len(front) = 0 THEN last.name
             ELSE PathString(front) \o "." \o last.name

\* field.Forbidden(path, "") and field.Required(path, "")
FieldForbidden(path) == [Type |-> "Forbidden", Field |-> PathString(path), BadValue |-> Nil]
FieldRequired(path) == [Type |-> "Required", Field |-> PathString(path), BadValue |-> Nil]

\* withBadValue(err, badValue)
withBadValue(err, badValue) == [err EXCEPT !.BadValue = Ptr(badValue)]

RECURSIVE FoldIdx(_, _, _, _)
\* for i, x := range s { acc = Op(acc, i, x) }, with Go's 0-based i
FoldIdx(Op(_, _, _), acc, s, i) ==
    IF i >= Len(s) THEN acc ELSE FoldIdx(Op, Op(acc, i, s[i + 1]), s, i + 1)

\* for _, x := range s { acc = Op(acc, x) }
Fold(Op(_, _), acc, s) == FoldIdx(LAMBDA a, i, x : Op(a, x), acc, s, 0)

-----------------------------------------------------------------------------
(* PathFn: a closure that realizes a *field.Path, or nil *)

\* withPath(path)
withPath(path) == IF path = Nil THEN Nil ELSE Ptr([root |-> path, segs |-> <<>>])

\* Calling a non-nil PathFn: the parent is realized first, then the segment.
CallPathFn(fn) ==
    Fold(LAMBDA p, seg :
             IF p = Nil THEN Nil
             ELSE IF seg.op = "child" THEN PathChild(p, seg.arg)
             ELSE IF seg.op = "index" THEN PathIndex(p, seg.arg)
             ELSE PathKey(p, seg.arg),
         Deref(fn).root, Deref(fn).segs)

\* an index that counts from one
index_one_based(parent, i) ==
    IF parent = Nil THEN Nil
    ELSE Ptr([Deref(parent) EXCEPT !.segs = Append(@, [op |-> "index", arg |-> i + 1])])

\* parent.index(i)
index(parent, i) ==
    IF parent = Nil THEN Nil
    ELSE Ptr([Deref(parent) EXCEPT !.segs = Append(@, [op |-> "index", arg |-> i])])

\* a child that returns a closure also for a nil parent; the closure realizes to nil
child_of_nil(parent, name) ==
    IF parent = Nil THEN Ptr([root |-> Nil, segs |-> << [op |-> "child", arg |-> name] >>])
    ELSE Ptr([Deref(parent) EXCEPT !.segs = Append(@, [op |-> "child", arg |-> name])])

\* parent.child(name)
child(parent, name) ==
    IF parent = Nil THEN Nil
    ELSE Ptr([Deref(parent) EXCEPT !.segs = Append(@, [op |-> "child", arg |-> name])])

\* parent.key(key)
key(parent, k) ==
    IF parent = Nil THEN Nil
    ELSE Ptr([Deref(parent) EXCEPT !.segs = Append(@, [op |-> "key", arg |-> k])])

\* The package-level locations, each derived from the "spec" root.
specPath(g) == withPath(g.specRoot)
initContainersFldPath(g) == child(specPath(g), "initContainers")
containersFldPath(g) == child(specPath(g), "containers")
\* the ephemeral containers' location copied from the regular containers'
ephemeralContainersFldPath_as_containers(g) == child(specPath(g), "containers")
ephemeralContainersFldPath(g) == child(specPath(g), "ephemeralContainers")
securityContextPath(g) == child(specPath(g), "securityContext")
volumesPath(g) == child(specPath(g), "volumes")
runAsNonRootPath(g) == child(securityContextPath(g), "runAsNonRoot")
runAsUserPath(g) == child(securityContextPath(g), "runAsUser")
seccompProfileTypePath(g) == child(child(securityContextPath(g), "seccompProfile"), "type")
seLinuxOptionsTypePath(g) == child(child(securityContextPath(g), "seLinuxOptions"), "type")
seLinuxOptionsUserPath(g) == child(child(securityContextPath(g), "seLinuxOptions"), "user")
seLinuxOptionsRolePath(g) == child(child(securityContextPath(g), "seLinuxOptions"), "role")
sysctlsPath(g) == child(securityContextPath(g), "sysctls")
annotationsPath(g) == withPath(g.annotationsRoot)

-----------------------------------------------------------------------------
(* ErrFn: a closure that builds a *field.Error, or nil *)

\* forbidden(pathFn)
forbidden(pathFn) ==
    IF pathFn = Nil THEN Nil
    ELSE Ptr([Type |-> "Forbidden", pathFn |-> pathFn, BadValue |-> Nil])

\* required(pathFn)
required(pathFn) ==
    IF pathFn = Nil THEN Nil
    ELSE Ptr([Type |-> "Required", pathFn |-> pathFn, BadValue |-> Nil])

\* f.withBadValue(badValue)
ErrFn_withBadValue(f, badValue) ==
    IF f = Nil THEN Nil ELSE Ptr([Deref(f) EXCEPT !.BadValue = Ptr(badValue)])

\* Calling a non-nil ErrFn: nil when its path realizes to nil.
CallErrFn(f) ==
    LET path == CallPathFn(Deref(f).pathFn)
    IN  IF path = Nil THEN Nil
        ELSE Ptr([Type |-> Deref(f).Type, Field |-> PathString(path),
                  BadValue |-> Deref(f).BadValue])

-----------------------------------------------------------------------------
(* violations[T] *)

\* the zero value: var v violations[string]
ZeroViolations == [data |-> <<>>, errs |-> <<>>, withFieldErrors |-> FALSE]

NewViolations(withFieldErrors) ==
    [data |-> <<>>, errs |-> <<>>, withFieldErrors |-> withFieldErrors]

\* a loop that puts each error in front of those it already has
Realize_newest_first(errFns) ==
    Fold(LAMBDA errs, errFn :
             IF errFn # Nil /\ CallErrFn(errFn) # Nil
             THEN <<Deref(CallErrFn(errFn))>> \o errs ELSE errs,
         <<>>, errFns)

\* the errors the non-nil constructors among errFns return, in order
Realize(errFns) ==
    Fold(LAMBDA errs, errFn :
             IF errFn # Nil /\ CallErrFn(errFn) # Nil
             THEN Append(errs, Deref(CallErrFn(errFn))) ELSE errs,
         <<>>, errFns)

\* an Add that does not look at withFieldErrors
Add_whatever_the_flag(v, data, errFns) ==
    [v EXCEPT !.data = Append(@, data), !.errs = @ \o Realize(errFns)]

\* v.Add(data, errFns...)
Add(v, data, errFns) ==
    [v EXCEPT !.data = Append(@, data),
              !.errs = IF v.withFieldErrors THEN @ \o Realize(errFns) ELSE @]

\* v.Add(data, opts, errFns...)
AddOpts(v, data, opts, errFns) ==
    [v EXCEPT !.data = Append(@, data),
              !.errs = IF opts.withFieldErrors THEN @ \o Realize(errFns) ELSE @]

\* v.AddErrs(errFns...)
AddErrs(v, errFns) == [v EXCEPT !.errs = @ \o Realize(errFns)]

Empty(v) == Len(v.data) = 0
Data(v) == v.data
VLen(v) == Len(v.data)
Errs(v) == v.errs

-----------------------------------------------------------------------------
(* Container visitor *)

\* a visitor loop that leaves out the ephemeral containers
visitContainers_without_ephemeral(g, podSpec, opts) ==
    [i \in 1..Len(podSpec.InitContainers) |->
        [container |-> podSpec.InitContainers[i],
         pathFn |-> IF opts.withFieldErrors
                    THEN index(initContainersFldPath(g), i - 1) ELSE Nil]]
    \o
    [i \in 1..Len(podSpec.Containers) |->
        [container |-> podSpec.Containers[i],
         pathFn |-> IF opts.withFieldErrors
                    THEN index(containersFldPath(g), i - 1) ELSE Nil]]

\* a visitor loop that starts with the regular containers
visitContainers_regular_first(g, podSpec, opts) ==
    [i \in 1..Len(podSpec.Containers) |->
        [container |-> podSpec.Containers[i],
         pathFn |-> IF opts.withFieldErrors
                    THEN index(containersFldPath(g), i - 1) ELSE Nil]]
    \o
    [i \in 1..Len(podSpec.InitContainers) |->
        [container |-> podSpec.InitContainers[i],
         pathFn |-> IF opts.withFieldErrors
                    THEN index(initContainersFldPath(g), i - 1) ELSE Nil]]
    \o
    [i \in 1..Len(podSpec.EphemeralContainers) |->
        [container |-> podSpec.EphemeralContainers[i],
         pathFn |-> IF opts.withFieldErrors
                    THEN index(ephemeralContainersFldPath(g), i - 1) ELSE Nil]]

\* visitContainers(podSpec, opts, visitor): the calls of visitor, in order
visitContainers(g, podSpec, opts) ==
    [i \in 1..Len(podSpec.InitContainers) |->
        [container |-> podSpec.InitContainers[i],
         pathFn |-> IF opts.withFieldErrors
                    THEN index(initContainersFldPath(g), i - 1) ELSE Nil]]
    \o
    [i \in 1..Len(podSpec.Containers) |->
        [container |-> podSpec.Containers[i],
         pathFn |-> IF opts.withFieldErrors
                    THEN index(containersFldPath(g), i - 1) ELSE Nil]]
    \o
    [i \in 1..Len(podSpec.EphemeralContainers) |->
        [container |-> podSpec.EphemeralContainers[i],
         pathFn |-> IF opts.withFieldErrors
                    THEN index(ephemeralContainersFldPath(g), i - 1) ELSE Nil]]

\* visitContainersWithPath(podSpec, visitor): every call gets the container's path
visitContainersWithPath(g, podSpec) ==
    visitContainers(g, podSpec, [withFieldErrors |-> TRUE])

\* opts.errListHandler(f): the errors f appends, when the option is set
errListHandler(opts, errs) == IF opts.withFieldErrors THEN errs ELSE <<>>

CheckResultAllowed ==
    [Allowed |-> TRUE, ForbiddenReason |-> "", ForbiddenDetail |-> "", ErrList |-> <<>>]

-----------------------------------------------------------------------------
(* sysctls *)

\* a 1.0 set that already holds the name 1.27 adds
sysctls_allowed_1_0_init_with_reserved_ports ==
    { "kernel.shm_rmid_forced", "net.ipv4.ip_local_port_range", "net.ipv4.tcp_syncookies",
      "net.ipv4.ping_group_range", "net.ipv4.ip_unprivileged_port_start",
      "net.ipv4.ip_local_reserved_ports" }

sysctls_allowed_1_0_init ==
    { "kernel.shm_rmid_forced", "net.ipv4.ip_local_port_range", "net.ipv4.tcp_syncookies",
      "net.ipv4.ping_group_range", "net.ipv4.ip_unprivileged_port_start" }

sysctls_allowed_1_27_init ==
    { "kernel.shm_rmid_forced", "net.ipv4.ip_local_port_range", "net.ipv4.tcp_syncookies",
      "net.ipv4.ping_group_range", "net.ipv4.ip_unprivileged_port_start",
      "net.ipv4.ip_local_reserved_ports" }

\* a sysctls that rejects a pod without a securityContext
sysctls_requiring_securityContext(g, podMetadata, podSpec, sysctls_allowed_set, opts) ==
    LET list == IF podSpec.SecurityContext # Nil
                THEN Deref(podSpec.SecurityContext).Sysctls ELSE <<>>
        forbiddenSysctls ==
            FoldIdx(LAMBDA v, i, sysctl :
                        IF sysctl.Name \notin sysctls_allowed_set
                        THEN Add(v, sysctl.Name,
                                 << IF opts.withFieldErrors
                                    THEN ErrFn_withBadValue(
                                             forbidden(child(index(sysctlsPath(g), i), "name")),
                                             <<sysctl.Name>>)
                                    ELSE Nil >>)
                        ELSE v,
                    NewViolations(opts.withFieldErrors), list, 0)
    IN  IF ~Empty(forbiddenSysctls) \/ podSpec.SecurityContext = Nil
        THEN [Allowed |-> FALSE,
              ForbiddenReason |-> "forbidden sysctls",
              ForbiddenDetail |-> Join(Data(forbiddenSysctls), ", "),
              ErrList |-> Errs(forbiddenSysctls)]
        ELSE CheckResultAllowed

sysctls(g, podMetadata, podSpec, sysctls_allowed_set, opts) ==
    LET list == IF podSpec.SecurityContext # Nil
                THEN Deref(podSpec.SecurityContext).Sysctls ELSE <<>>
        forbiddenSysctls ==
            FoldIdx(LAMBDA v, i, sysctl :
                        IF sysctl.Name \notin sysctls_allowed_set
                        THEN Add(v, sysctl.Name,
                                 << IF opts.withFieldErrors
                                    THEN ErrFn_withBadValue(
                                             forbidden(child(index(sysctlsPath(g), i), "name")),
                                             <<sysctl.Name>>)
                                    ELSE Nil >>)
                        ELSE v,
                    NewViolations(opts.withFieldErrors), list, 0)
    IN  IF ~Empty(forbiddenSysctls)
        THEN [Allowed |-> FALSE,
              ForbiddenReason |-> "forbidden sysctls",
              ForbiddenDetail |-> Join(Data(forbiddenSysctls), ", "),
              ErrList |-> Errs(forbiddenSysctls)]
        ELSE CheckResultAllowed

\* a sysctls that adds the names it met to the set
sysctls_set_after_insert(podSpec, sysctls_allowed_set) ==
    IF podSpec.SecurityContext = Nil THEN sysctls_allowed_set
    ELSE sysctls_allowed_set \cup
             { Deref(podSpec.SecurityContext).Sysctls[i].Name :
                 i \in 1..Len(Deref(podSpec.SecurityContext).Sysctls) }

\* a sysctls that takes the names it met out of the set
sysctls_set_after_delete(podSpec, sysctls_allowed_set) ==
    IF podSpec.SecurityContext = Nil THEN sysctls_allowed_set
    ELSE sysctls_allowed_set \
             { Deref(podSpec.SecurityContext).Sysctls[i].Name :
                 i \in 1..Len(Deref(podSpec.SecurityContext).Sysctls) }

\* The set passed to sysctls as it is when sysctls returns: the set is only
\* queried with Has.
sysctls_set_after(podSpec, sysctls_allowed_set) == sysctls_allowed_set

sysctls_1_0(g, podMetadata, podSpec, opts) ==
    sysctls(g, podMetadata, podSpec, g.sysctls_allowed_1_0, opts)

sysctls_1_27(g, podMetadata, podSpec, opts) ==
    sysctls(g, podMetadata, podSpec, g.sysctls_allowed_1_27, opts)

-----------------------------------------------------------------------------
(* runAsUser *)

runAsUser_1_23(g, podMetadata, podSpec, opts) ==
    LET sc == podSpec.SecurityContext
        badSetters0 == NewViolations(opts.withFieldErrors)
        badSetters1 ==
            IF sc # Nil /\ Deref(sc).RunAsUser # Nil /\ Deref(Deref(sc).RunAsUser) = 0
            THEN Add(badSetters0, "pod",
                     << IF opts.withFieldErrors
                        THEN ErrFn_withBadValue(forbidden(runAsUserPath(g)), GoInt(0))
                        ELSE Nil >>)
            ELSE badSetters0
        visited ==
            Fold(LAMBDA st, visit :
                     LET csc == visit.container.SecurityContext
                     IN  IF csc # Nil /\ Deref(csc).RunAsUser # Nil
                            /\ Deref(Deref(csc).RunAsUser) = 0
                         THEN [explicitlyBadContainers |->
                                   Add(st.explicitlyBadContainers, visit.container.Name, <<>>),
                               explicitlyErrFns |->
                                   Append(st.explicitlyErrFns,
                                          ErrFn_withBadValue(
                                              forbidden(child(child(visit.pathFn,
                                                                    "securityContext"),
                                                              "runAsUser")),
                                              GoInt(0)))]
                         ELSE st,
                 [explicitlyBadContainers |-> NewViolations(opts.withFieldErrors),
                  explicitlyErrFns |-> <<>>],
                 visitContainers(g, podSpec, opts))
        badSetters ==
            IF ~Empty(visited.explicitlyBadContainers)
            THEN Add(badSetters1,
                     pluralize("container", "containers", VLen(visited.explicitlyBadContainers))
                         \o " " \o joinQuote(Data(visited.explicitlyBadContainers)),
                     visited.explicitlyErrFns)
            ELSE badSetters1
    IN  IF ~Empty(badSetters)
        THEN [Allowed |-> FALSE,
              ForbiddenReason |-> "runAsUser=0",
              ForbiddenDetail |-> Join(Data(badSetters), " and ")
                                      \o " must not set runAsUser=0",
              ErrList |-> Errs(badSetters)]
        ELSE CheckResultAllowed

-----------------------------------------------------------------------------
(* runAsNonRoot *)

\* forbidden(pathFn, badValue)
forbiddenValue(pathFn, badValue) == ErrFn_withBadValue(forbidden(pathFn), badValue)

runAsNonRoot_1_0(g, podMetadata, podSpec, opts) ==
    LET sc == podSpec.SecurityContext
        podSet == sc # Nil /\ Deref(sc).RunAsNonRoot # Nil
        podRunAsNonRoot == podSet /\ Deref(Deref(sc).RunAsNonRoot)
        badSetters1 ==
            IF podSet /\ ~Deref(Deref(sc).RunAsNonRoot)
            THEN Add(ZeroViolations, "pod",
                     << IF opts.withFieldErrors
                        THEN forbiddenValue(runAsNonRootPath(g), <<"false">>)
                        ELSE Nil >>)
            ELSE ZeroViolations
        visited ==
            Fold(LAMBDA st, visit :
                     LET csc == visit.container.SecurityContext
                     IN  IF csc # Nil /\ Deref(csc).RunAsNonRoot # Nil
                         THEN IF ~Deref(Deref(csc).RunAsNonRoot)
                              THEN [st EXCEPT
                                       !.explicitlyBadContainers =
                                           Add(@, visit.container.Name, <<>>),
                                       !.explicitlyErrFns =
                                           Append(@, forbiddenValue(
                                                         child(child(visit.pathFn,
                                                                     "securityContext"),
                                                               "runAsNonRoot"),
                                                         <<"false">>))]
                              ELSE st
                         ELSE IF ~podRunAsNonRoot
                              THEN [st EXCEPT
                                       !.implicitlyBadContainers =
                                           Add(@, visit.container.Name,
                                               << IF opts.withFieldErrors
                                                  THEN required(runAsNonRootPath(g))
                                                  ELSE Nil >>)]
                              ELSE st,
                 [explicitlyBadContainers |-> ZeroViolations,
                  implicitlyBadContainers |-> ZeroViolations,
                  explicitlyErrFns |-> <<>>],
                 visitContainers(g, podSpec, opts))
        badSetters ==
            IF ~Empty(visited.explicitlyBadContainers)
            THEN Add(badSetters1,
                     pluralize("container", "containers", VLen(visited.explicitlyBadContainers))
                         \o " " \o joinQuote(Data(visited.explicitlyBadContainers)),
                     visited.explicitlyErrFns)
            ELSE badSetters1
    IN  IF ~Empty(badSetters)
        THEN [Allowed |-> FALSE,
              ForbiddenReason |-> "runAsNonRoot != true",
              ForbiddenDetail |-> Join(Data(badSetters), " and ")
                                      \o " must not set securityContext.runAsNonRoot=false",
              ErrList |-> Errs(badSetters)]
        ELSE IF ~Empty(visited.implicitlyBadContainers)
        THEN [Allowed |-> FALSE,
              ForbiddenReason |-> "runAsNonRoot != true",
              ForbiddenDetail |->
                  "pod or "
                  \o pluralize("container", "containers", VLen(visited.implicitlyBadContainers))
                  \o " " \o joinQuote(Data(visited.implicitlyBadContainers))
                  \o " must set securityContext.runAsNonRoot=true",
              ErrList |-> Errs(visited.implicitlyBadContainers)]
        ELSE CheckResultAllowed

-----------------------------------------------------------------------------
(* capabilities_restricted *)

capabilityAll == "ALL"
capabilityNetBindService == "NET_BIND_SERVICE"

Elems(s) == { s[i] : i \in 1..Len(s) }

capabilitiesRestricted_1_22(g, podMetadata, podSpec, opts) ==
    LET capsPath(pathFn, leaf) ==
            child(child(child(pathFn, "securityContext"), "capabilities"), leaf)
        visited ==
            Fold(LAMBDA st, visit :
                     LET csc == visit.container.SecurityContext
                         name == visit.container.Name
                     IN  IF csc = Nil \/ Deref(csc).Capabilities = Nil
                         THEN [st EXCEPT !.containersMissingDropAll =
                                  AddOpts(@, name, opts,
                                          <<required(capsPath(visit.pathFn, "drop"))>>)]
                         ELSE
                         LET caps == Deref(Deref(csc).Capabilities)
                             droppedAll == capabilityAll \in Elems(caps.Drop)
                             added == { c \in Elems(caps.Add) : c # capabilityNetBindService }
                             forbiddenCapabilities == st.forbiddenCapabilities \cup added
                         IN  [forbiddenCapabilities |-> forbiddenCapabilities,
                              containersMissingDropAll |->
                                  IF ~droppedAll
                                  THEN AddOpts(st.containersMissingDropAll, name, opts,
                                               <<forbiddenValue(capsPath(visit.pathFn, "drop"),
                                                                caps.Drop)>>)
                                  ELSE st.containersMissingDropAll,
                              containersAddingForbidden |->
                                  IF added # {}
                                  THEN AddOpts(st.containersAddingForbidden, name, opts,
                                               <<forbiddenValue(capsPath(visit.pathFn, "add"),
                                                                List(forbiddenCapabilities))>>)
                                  ELSE st.containersAddingForbidden],
                 [forbiddenCapabilities |-> {},
                  containersMissingDropAll |-> ZeroViolations,
                  containersAddingForbidden |-> ZeroViolations],
                 visitContainersWithPath(g, podSpec))
        errList == Errs(visited.containersMissingDropAll)
                       \o Errs(visited.containersAddingForbidden)
        details1 ==
            IF ~Empty(visited.containersMissingDropAll)
            THEN << pluralize("container", "containers",
                              VLen(visited.containersMissingDropAll))
                    \o " " \o joinQuote(Data(visited.containersMissingDropAll))
                    \o " must set securityContext.capabilities.drop=[\"ALL\"]" >>
            ELSE <<>>
        forbiddenDetails ==
            IF ~Empty(visited.containersAddingForbidden)
            THEN Append(details1,
                        pluralize("container", "containers",
                                  VLen(visited.containersAddingForbidden))
                        \o " " \o joinQuote(Data(visited.containersAddingForbidden))
                        \o " must not include "
                        \o joinQuote(List(visited.forbiddenCapabilities))
                        \o " in securityContext.capabilities.add")
            ELSE details1
    IN  IF Len(forbiddenDetails) > 0
        THEN [Allowed |-> FALSE,
              ForbiddenReason |-> "unrestricted capabilities",
              ForbiddenDetail |-> Join(forbiddenDetails, "; "),
              ErrList |-> errList]
        ELSE CheckResultAllowed

\* a capabilitiesRestricted_1_25 that exempts every pod that names its os
capabilitiesRestricted_1_25_any_os(g, podMetadata, podSpec, opts) ==
    IF podSpec.OS # Nil
    THEN CheckResultAllowed
    ELSE capabilitiesRestricted_1_22(g, podMetadata, podSpec, opts)

capabilitiesRestricted_1_25(g, podMetadata, podSpec, opts) ==
    IF podSpec.OS # Nil /\ Deref(podSpec.OS).Name = "windows"
    THEN CheckResultAllowed
    ELSE capabilitiesRestricted_1_22(g, podMetadata, podSpec, opts)

-----------------------------------------------------------------------------
(* seLinuxOptions *)

selinux_allowed_types_1_0_init == { "", "container_t", "container_init_t", "container_kvm_t" }

\* What validSELinuxOptions finds in one seLinuxOptions object.
SELinuxFindings(g, o) ==
    [badType |-> o.Type \notin g.selinux_allowed_types_1_0,
     user |-> o.User # "",
     role |-> o.Role # ""]

SELinuxResult(badSetters, badTypes, setUser, setRole) ==
    IF ~Empty(badSetters)
    THEN LET badData ==
                 (IF Cardinality(badTypes) > 0
                  THEN << pluralize("type", "types", Cardinality(badTypes))
                          \o " " \o joinQuote(List(badTypes)) >>
                  ELSE <<>>)
                 \o (IF setUser THEN <<"user may not be set">> ELSE <<>>)
                 \o (IF setRole THEN <<"role may not be set">> ELSE <<>>)
         IN  [Allowed |-> FALSE,
              ForbiddenReason |-> "seLinuxOptions",
              ForbiddenDetail |-> Join(Data(badSetters), " and ")
                                      \o " set forbidden securityContext.seLinuxOptions: "
                                      \o Join(badData, "; "),
              ErrList |-> Errs(badSetters)]
    ELSE CheckResultAllowed

\* seLinuxOptions_1_0 as in check_seLinuxOptions.go
seLinuxOptions_1_0(g, podMetadata, podSpec, opts) ==
    LET sc == podSpec.SecurityContext
        podSet == sc # Nil /\ Deref(sc).SELinuxOptions # Nil
        st0 == [badSetters |-> ZeroViolations, badContainers |-> ZeroViolations,
                errFns |-> <<>>, badTypes |-> {}, setUser |-> FALSE, setRole |-> FALSE]
        note(st, o) ==
            LET f == SELinuxFindings(g, o)
            IN  [st EXCEPT !.badTypes = IF f.badType THEN @ \cup {o.Type} ELSE @,
                           !.setUser = @ \/ f.user,
                           !.setRole = @ \/ f.role]
        invalid(o) ==
            LET f == SELinuxFindings(g, o) IN f.badType \/ f.user \/ f.role
        st1 ==
            IF podSet
            THEN LET o == Deref(Deref(sc).SELinuxOptions)
                 IN  IF invalid(o)
                     THEN [note(st0, o) EXCEPT !.badSetters =
                              AddOpts(@, "pod", opts,
                                      <<forbiddenValue(seLinuxOptionsTypePath(g), <<o.Type>>)>>)]
                     ELSE st0
            ELSE st0
        st2 ==
            Fold(LAMBDA st, visit :
                     LET csc == visit.container.SecurityContext
                     IN  IF csc # Nil /\ Deref(csc).SELinuxOptions # Nil
                         THEN LET o == Deref(Deref(csc).SELinuxOptions)
                              IN  IF invalid(o)
                                  THEN [note(st, o) EXCEPT
                                           !.badContainers =
                                               AddOpts(@, visit.container.Name, opts, <<>>),
                                           !.errFns =
                                               Append(@, forbiddenValue(
                                                   child(child(child(visit.pathFn,
                                                                     "securityContext"),
                                                               "seLinuxOptions"),
                                                         "type"),
                                                   <<o.Type>>))]
                                  ELSE st
                         ELSE st,
                 st1, visitContainersWithPath(g, podSpec))
        badSetters ==
            IF ~Empty(st2.badContainers)
            THEN AddOpts(st2.badSetters,
                         pluralize("container", "containers", VLen(st2.badContainers))
                             \o " " \o joinQuote(Data(st2.badContainers)),
                         opts, st2.errFns)
            ELSE st2.badSetters
    IN  SELinuxResult(badSetters, st2.badTypes, st2.setUser, st2.setRole)

\* seLinuxOptions_1_0 as in the second copy of the check (paths.go)
seLinuxOptions_1_0_fields(g, podMetadata, podSpec, opts) ==
    LET sc == podSpec.SecurityContext
        podSet == sc # Nil /\ Deref(sc).SELinuxOptions # Nil
        st0 == [badSetters |-> ZeroViolations, badContainers |-> ZeroViolations,
                errFns |-> <<>>, badTypes |-> {}, setUser |-> FALSE, setRole |-> FALSE]
        \* the closure validSELinuxOptions: the state after the call
        fieldErr(pathFn, isPodLevel, podPath, leaf, value) ==
            IF pathFn # Nil
            THEN << forbiddenValue(child(child(child(pathFn, "securityContext"),
                                               "seLinuxOptions"), leaf),
                                   <<value>>) >>
            ELSE IF isPodLevel /\ opts.withFieldErrors
            THEN << forbiddenValue(podPath, <<value>>) >>
            ELSE <<>>
        validate(st, o, pathFn, isPodLevel) ==
            LET f == SELinuxFindings(g, o)
            IN  [st EXCEPT
                    !.badTypes = IF f.badType THEN @ \cup {o.Type} ELSE @,
                    !.setUser = @ \/ f.user,
                    !.setRole = @ \/ f.role,
                    !.errFns = @
                        \o (IF f.badType
                            THEN fieldErr(pathFn, isPodLevel, seLinuxOptionsTypePath(g),
                                          "type", o.Type) ELSE <<>>)
                        \o (IF f.user
                            THEN fieldErr(pathFn, isPodLevel, seLinuxOptionsUserPath(g),
                                          "user", o.User) ELSE <<>>)
                        \o (IF f.role
                            THEN fieldErr(pathFn, isPodLevel, seLinuxOptionsRolePath(g),
                                          "role", o.Role) ELSE <<>>)]
        invalid(o) ==
            LET f == SELinuxFindings(g, o) IN f.badType \/ f.user \/ f.role
        st1 ==
            IF podSet
            THEN LET o == Deref(Deref(sc).SELinuxOptions)
                 IN  IF invalid(o)
                     THEN [validate(st0, o, Nil, TRUE) EXCEPT
                              !.badSetters = Add(@, "pod", <<>>)]
                     ELSE st0
            ELSE st0
        st2 ==
            Fold(LAMBDA st, visit :
                     LET csc == visit.container.SecurityContext
                     IN  IF csc # Nil /\ Deref(csc).SELinuxOptions # Nil
                         THEN LET o == Deref(Deref(csc).SELinuxOptions)
                              IN  IF invalid(o)
                                  THEN [validate(st, o, visit.pathFn, FALSE) EXCEPT
                                           !.badContainers =
                                               Add(@, visit.container.Name, <<>>)]
                                  ELSE st
                         ELSE st,
                 st1, visitContainers(g, podSpec, opts))
        withErrs == AddErrs(st2.badSetters, st2.errFns)
        badSetters ==
            IF ~Empty(st2.badContainers)
            THEN Add(withErrs,
                     pluralize("container", "containers", VLen(st2.badContainers))
                         \o " " \o joinQuote(Data(st2.badContainers)),
                     <<>>)
            ELSE withErrs
    IN  SELinuxResult(badSetters, st2.badTypes, st2.setUser, st2.setRole)

-----------------------------------------------------------------------------
(* seccompProfile_baseline *)

annotationKeyPod == "seccomp.security.alpha.kubernetes.io/pod"
annotationKeyContainerPrefix == "container.seccomp.security.alpha.kubernetes.io/"
checkSeccompBaselineID == "seccompProfile_baseline"

validSeccomp(t) == t = "Localhost" \/ t = "RuntimeDefault"

validSeccompAnnotationValue(v) ==
    v = "runtime/default" \/ v = "docker/default" \/ v \in {"localhost/profile.json"}

seccompProfileBaseline_1_0(g, podMetadata, podSpec, opts) ==
    LET ann == podMetadata.Annotations
        check(st, annotation) ==
            IF annotation \in DOMAIN ann /\ ~validSeccompAnnotationValue(ann[annotation])
            THEN [forbidden |-> st.forbidden
                                    \cup {annotation \o "=" \o Quote(ann[annotation])},
                  errList |-> st.errList \o errListHandler(opts,
                      << withBadValue(FieldForbidden(PathKey(g.annotationsRoot, annotation)),
                                      <<ann[annotation]>>) >>)]
            ELSE st
        st1 == check([forbidden |-> {}, errList |-> <<>>], annotationKeyPod)
        st2 == Fold(LAMBDA st, visit :
                        check(st, annotationKeyContainerPrefix \o visit.container.Name),
                    st1, visitContainersWithPath(g, podSpec))
    IN  IF Cardinality(st2.forbidden) > 0
        THEN [Allowed |-> FALSE,
              ForbiddenReason |-> "seccompProfile",
              ForbiddenDetail |->
                  "forbidden "
                  \o pluralize("annotation", "annotations", Cardinality(st2.forbidden))
                  \o " " \o Join(List(st2.forbidden), ", "),
              ErrList |-> st2.errList]
        ELSE CheckResultAllowed

seccompProfileBaseline_1_19(g, podMetadata, podSpec, opts) ==
    LET sc == podSpec.SecurityContext
        podBad == sc # Nil /\ Deref(sc).SeccompProfile # Nil
                      /\ ~validSeccomp(Deref(Deref(sc).SeccompProfile).Type)
        typePath == CallPathFn(seccompProfileTypePath(g))
        st1 ==
            IF podBad
            THEN [badSetters |-> <<"pod">>,
                  badValues |-> {Deref(Deref(sc).SeccompProfile).Type},
                  errList |-> errListHandler(opts,
                      << withBadValue(FieldForbidden(typePath),
                                      <<Deref(Deref(sc).SeccompProfile).Type>>) >>),
                  explicitlyBadContainers |-> <<>>,
                  panicked |-> FALSE]
            ELSE [badSetters |-> <<>>, badValues |-> {}, errList |-> <<>>,
                  explicitlyBadContainers |-> <<>>, panicked |-> FALSE]
        st2 ==
            Fold(LAMBDA st, visit :
                     LET csc == visit.container.SecurityContext
                     IN  IF st.panicked THEN st
                         ELSE IF csc # Nil /\ Deref(csc).SeccompProfile # Nil
                                 /\ ~validSeccomp(Deref(Deref(csc).SeccompProfile).Type)
                         THEN IF opts.withFieldErrors
                                 /\ (sc = Nil \/ Deref(sc).SeccompProfile = Nil)
                              \* the error closure reads podSpec.SecurityContext.SeccompProfile.Type
                              THEN [st EXCEPT !.panicked = TRUE]
                              ELSE [st EXCEPT
                                       !.explicitlyBadContainers =
                                           Append(@, visit.container.Name),
                                       !.badValues =
                                           @ \cup {Deref(Deref(csc).SeccompProfile).Type},
                                       !.errList = @ \o errListHandler(opts,
                                           << withBadValue(
                                                  FieldForbidden(
                                                      PathChild(PathChild(PathChild(
                                                          CallPathFn(visit.pathFn),
                                                          "securityContext"),
                                                          "seccompProfile"), "type")),
                                                  <<Deref(Deref(sc).SeccompProfile).Type>>) >>)]
                         ELSE st,
                 st1, visitContainersWithPath(g, podSpec))
        badSetters ==
            IF Len(st2.explicitlyBadContainers) > 0
            THEN Append(st2.badSetters,
                        pluralize("container", "containers", Len(st2.explicitlyBadContainers))
                        \o " " \o joinQuote(st2.explicitlyBadContainers))
            ELSE st2.badSetters
    IN  IF st2.panicked THEN Panic
        ELSE IF Len(badSetters) > 0
        THEN [Allowed |-> FALSE,
              ForbiddenReason |-> "seccompProfile",
              ForbiddenDetail |->
                  Join(badSetters, " and ")
                  \o " must not set securityContext.seccompProfile.type to "
                  \o joinQuote(List(st2.badValues)),
              ErrList |-> st2.errList]
        ELSE CheckResultAllowed

-----------------------------------------------------------------------------
(* hostPorts *)

hostPorts_1_0(g, podMetadata, podSpec, opts) ==
    LET st2 ==
            Fold(LAMBDA st, visit :
                     LET path == CallPathFn(visit.pathFn)
                         ports ==
                             FoldIdx(LAMBDA a, i, c :
                                         IF c.HostPort # 0
                                         THEN [valid |-> FALSE,
                                               forbiddenHostPorts |->
                                                   a.forbiddenHostPorts
                                                       \cup {ToString(c.HostPort)},
                                               errList |-> a.errList \o errListHandler(opts,
                                                   << withBadValue(
                                                          FieldForbidden(
                                                              PathChild(PathIndex(
                                                                  PathChild(path, "ports"), i),
                                                                  "hostPort")),
                                                          <<ToString(c.HostPort)>>) >>)]
                                         ELSE a,
                                     [valid |-> TRUE,
                                      forbiddenHostPorts |-> st.forbiddenHostPorts,
                                      errList |-> st.errList],
                                     visit.container.Ports, 0)
                     IN  [badContainers |-> IF ~ports.valid
                                            THEN Append(st.badContainers, visit.container.Name)
                                            ELSE st.badContainers,
                          forbiddenHostPorts |-> ports.forbiddenHostPorts,
                          errList |-> ports.errList],
                 [badContainers |-> <<>>, forbiddenHostPorts |-> {}, errList |-> <<>>],
                 visitContainersWithPath(g, podSpec))
    IN  IF Len(st2.badContainers) > 0
        THEN [Allowed |-> FALSE,
              ForbiddenReason |-> "hostPort",
              ForbiddenDetail |->
                  pluralize("container", "containers", Len(st2.badContainers))
                  \o " " \o joinQuote(st2.badContainers)
                  \o " " \o pluralize("uses", "use", Len(st2.badContainers))
                  \o " " \o pluralize("hostPort", "hostPorts",
                                      Cardinality(st2.forbiddenHostPorts))
                  \o " " \o Join(List(st2.forbiddenHostPorts), ", "),
              ErrList |-> st2.errList]
        ELSE CheckResultAllowed

-----------------------------------------------------------------------------
(* restrictedVolumes *)

\* the allowed volume sources with nfs among them
AllowedVolumeSources_with_nfs ==
    { "configMap", "csi", "downwardAPI", "emptyDir", "ephemeral", "nfs",
      "persistentVolumeClaim", "projected", "secret" }

\* the volume sources restrictedVolumes_1_0 lets pass
AllowedVolumeSources ==
    { "configMap", "csi", "downwardAPI", "emptyDir", "ephemeral",
      "persistentVolumeClaim", "projected", "secret" }

\* The inner switch of restrictedVolumes_1_0, in case order: the source field
\* tested, the type inserted into badVolumeTypes, the child named in the bad value.
RestrictedVolumeCases ==
    << [field |-> "hostPath", type |-> "hostPath", child |-> "hostPath"],
       [field |-> "gcePersistentDisk", type |-> "gcePersistentDisk",
        child |-> "gcePersistentDisk"],
       [field |-> "awsElasticBlockStore", type |-> "awsElasticBlockStore",
        child |-> "awsElasticBlockStore"],
       [field |-> "gitRepo", type |-> "gitRepo", child |-> "gitRepo"],
       [field |-> "nfs", type |-> "nfs", child |-> "gitRepo"],
       [field |-> "iscsi", type |-> "iscsi", child |-> "iscsi"],
       [field |-> "glusterfs", type |-> "glusterfs", child |-> "glusterfs"],
       [field |-> "rbd", type |-> "rbd", child |-> "rbd"],
       [field |-> "flexVolume", type |-> "flexVolume", child |-> "flexVolume"],
       [field |-> "cinder", type |-> "cinder", child |-> "cinder"],
       [field |-> "cephfs", type |-> "cephfs", child |-> "cephfs"],
       [field |-> "flocker", type |-> "flocker", child |-> "flocker"],
       [field |-> "fc", type |-> "fc", child |-> "fc"],
       [field |-> "azureFile", type |-> "azureFile", child |-> "azureFile"],
       [field |-> "vsphereVolume", type |-> "vsphereVolume", child |-> "vsphereVolume"],
       [field |-> "quobyte", type |-> "quobyte", child |-> "quobyte"],
       [field |-> "azureDisk", type |-> "azureDisk", child |-> "azureDisk"],
       [field |-> "photonPersistentDisk", type |-> "photonPersistentDisk",
        child |-> "photonPersistentDisk"],
       [field |-> "portworxVolume", type |-> "portworxVolume", child |-> "portworxVolume"],
       [field |-> "scaleIO", type |-> "scaleIO", child |-> "scaleIO"],
       [field |-> "storageos", type |-> "storageos", child |-> "storageos"] >>

\* the first case of the inner switch that matches the volume, or the default
RestrictedVolumeCase(volume) ==
    LET hits == SelectSeq(RestrictedVolumeCases, LAMBDA c : c.field \in volume.Sources)
    IN  IF Len(hits) > 0 THEN hits[1]
        ELSE [field |-> "", type |-> "unknown", child |-> "unknown"]

restrictedVolumes_1_0(g, podMetadata, podSpec, opts) ==
    LET st2 ==
            FoldIdx(LAMBDA st, i, volume :
                        IF volume.Sources \cap AllowedVolumeSources # {}
                        THEN st
                        ELSE LET volumesIndexPath == PathIndex(CallPathFn(volumesPath(g)), i)
                                 case == RestrictedVolumeCase(volume)
                             IN  [badVolumes |-> Append(st.badVolumes, volume.Name),
                                  badVolumeTypes |-> st.badVolumeTypes \cup {case.type},
                                  errList |-> st.errList \o errListHandler(opts,
                                      << withBadValue(
                                             FieldForbidden(volumesIndexPath),
                                             << PathString(PathChild(volumesIndexPath,
                                                                     case.child)) >>) >>)],
                    [badVolumes |-> <<>>, badVolumeTypes |-> {}, errList |-> <<>>],
                    podSpec.Volumes, 0)
    IN  IF Len(st2.badVolumes) > 0
        THEN [Allowed |-> FALSE,
              ForbiddenReason |-> "restricted volume types",
              ForbiddenDetail |->
                  pluralize("volume", "volumes", Len(st2.badVolumes))
                  \o " " \o joinQuote(st2.badVolumes)
                  \o " " \o pluralize("uses", "use", Len(st2.badVolumes))
                  \o " " \o pluralize("restricted volume type", "restricted volume types",
                                      Cardinality(st2.badVolumeTypes))
                  \o " " \o joinQuote(List(st2.badVolumeTypes)),
              ErrList |-> st2.errList]
        ELSE CheckResultAllowed

-----------------------------------------------------------------------------
(* The two baseline checks that the restricted checks override.  Their      *)
(* sources are not among the files modelled above; only their IDs are       *)
(* named there (checkHostPathVolumesID, checkCapabilitiesBaselineID).       *)

checkHostPathVolumesID == "hostPathVolumes"
checkCapabilitiesBaselineID == "capabilities_baseline"

capabilities_allowed_1_0 ==
    { "AUDIT_WRITE", "CHOWN", "DAC_OVERRIDE", "FOWNER", "FSETID", "KILL", "MKNOD",
      "NET_BIND_SERVICE", "SETFCAP", "SETGID", "SETPCAP", "SETUID", "SYS_CHROOT" }

hostPathVolumes_1_0(g, podMetadata, podSpec, opts) ==
    LET st2 ==
            FoldIdx(LAMBDA st, i, volume :
                        IF "hostPath" \in volume.Sources
                        THEN [hostVolumes |-> Append(st.hostVolumes, volume.Name),
                              errList |-> st.errList \o errListHandler(opts,
                                  << FieldForbidden(PathChild(
                                         PathIndex(CallPathFn(volumesPath(g)), i),
                                         "hostPath")) >>)]
                        ELSE st,
                    [hostVolumes |-> <<>>, errList |-> <<>>], podSpec.Volumes, 0)
    IN  IF Len(st2.hostVolumes) > 0
        THEN [Allowed |-> FALSE,
              ForbiddenReason |-> "hostPath volumes",
              ForbiddenDetail |-> pluralize("volume", "volumes", Len(st2.hostVolumes))
                                      \o " " \o joinQuote(st2.hostVolumes),
              ErrList |-> st2.errList]
        ELSE CheckResultAllowed

capabilitiesBaseline_1_0(g, podMetadata, podSpec, opts) ==
    LET st2 ==
            Fold(LAMBDA st, visit :
                     LET csc == visit.container.SecurityContext
                         added == IF csc # Nil /\ Deref(csc).Capabilities # Nil
                                  THEN { c \in Elems(Deref(Deref(csc).Capabilities).Add) :
                                             c \notin capabilities_allowed_1_0 }
                                  ELSE {}
                     IN  IF added # {}
                         THEN [badContainers |-> Append(st.badContainers, visit.container.Name),
                               nonDefault |-> st.nonDefault \cup added,
                               errList |-> st.errList \o errListHandler(opts,
                                   << withBadValue(
                                          FieldForbidden(
                                              PathChild(PathChild(PathChild(
                                                  CallPathFn(visit.pathFn),
                                                  "securityContext"), "capabilities"), "add")),
                                          List(added)) >>)]
                         ELSE st,
                 [badContainers |-> <<>>, nonDefault |-> {}, errList |-> <<>>],
                 visitContainersWithPath(g, podSpec))
    IN  IF Len(st2.badContainers) > 0
        THEN [Allowed |-> FALSE,
              ForbiddenReason |-> "non-default capabilities",
              ForbiddenDetail |->
                  pluralize("container", "containers", Len(st2.badContainers))
                  \o " " \o joinQuote(st2.badContainers)
                  \o " must not include " \o joinQuote(List(st2.nonDefault))
                  \o " in securityContext.capabilities.add",
              ErrList |-> st2.errList]
        ELSE CheckResultAllowed

-----------------------------------------------------------------------------
(* The check descriptors *)

VersionedCheck(minimumVersion, checkPod, overrideCheckIDs) ==
    [MinimumVersion |-> minimumVersion, CheckPod |-> checkPod,
     OverrideCheckIDs |-> overrideCheckIDs]

\* CheckSysctls with the second implementation introduced one minor earlier
CheckSysctls_from_1_26 ==
    [ID |-> "sysctls", Level |-> LevelBaseline,
     Versions |-> << VersionedCheck(MajorMinorVersion(1, 0), "sysctls_1_0", <<>>),
                     VersionedCheck(MajorMinorVersion(1, 26), "sysctls_1_27", <<>>) >>]

CheckSysctls ==
    [ID |-> "sysctls", Level |-> LevelBaseline,
     Versions |-> << VersionedCheck(MajorMinorVersion(1, 0), "sysctls_1_0", <<>>),
                     VersionedCheck(MajorMinorVersion(1, 27), "sysctls_1_27", <<>>) >>]

\* CheckRunAsUser with its implementation introduced one minor earlier
CheckRunAsUser_from_1_22 ==
    [ID |-> "runAsUser", Level |-> LevelRestricted,
     Versions |-> << VersionedCheck(MajorMinorVersion(1, 22), "runAsUser_1_23", <<>>) >>]

CheckRunAsUser ==
    [ID |-> "runAsUser", Level |-> LevelRestricted,
     Versions |-> << VersionedCheck(MajorMinorVersion(1, 23), "runAsUser_1_23", <<>>) >>]

CheckRunAsNonRoot ==
    [ID |-> "runAsNonRoot", Level |-> LevelRestricted,
     Versions |-> << VersionedCheck(MajorMinorVersion(1, 0), "runAsNonRoot_1_0", <<>>) >>]

\* CheckCapabilitiesRestricted whose 1.25 implementation overrides nothing
CheckCapabilitiesRestricted_1_25_overrides_nothing ==
    [ID |-> "capabilities_restricted", Level |-> LevelRestricted,
     Versions |-> << VersionedCheck(MajorMinorVersion(1, 22), "capabilitiesRestricted_1_22",
                                    <<"capabilities_baseline">>),
                     VersionedCheck(MajorMinorVersion(1, 25), "capabilitiesRestricted_1_25",
                                    <<>>) >>]

CheckCapabilitiesRestricted ==
    [ID |-> "capabilities_restricted", Level |-> LevelRestricted,
     Versions |-> << VersionedCheck(MajorMinorVersion(1, 22), "capabilitiesRestricted_1_22",
                                    <<checkCapabilitiesBaselineID>>),
                     VersionedCheck(MajorMinorVersion(1, 25), "capabilitiesRestricted_1_25",
                                    <<checkCapabilitiesBaselineID>>) >>]

CheckSELinuxOptions ==
    [ID |-> "seLinuxOptions", Level |-> LevelBaseline,
     Versions |-> << VersionedCheck(MajorMinorVersion(1, 0), "seLinuxOptions_1_0", <<>>) >>]

\* the second copy of the check (paths.go)
CheckSELinuxOptions_fields ==
    [ID |-> "seLinuxOptions", Level |-> LevelBaseline,
     Versions |-> << VersionedCheck(MajorMinorVersion(1, 0), "seLinuxOptions_1_0_fields",
                                    <<>>) >>]

\* CheckSeccompBaseline with the newer implementation listed first
CheckSeccompBaseline_newest_first ==
    [ID |-> checkSeccompBaselineID, Level |-> LevelBaseline,
     Versions |-> << VersionedCheck(MajorMinorVersion(1, 19), "seccompProfileBaseline_1_19",
                                    <<>>),
                     VersionedCheck(MajorMinorVersion(1, 0), "seccompProfileBaseline_1_0",
                                    <<>>) >>]

CheckSeccompBaseline ==
    [ID |-> checkSeccompBaselineID, Level |-> LevelBaseline,
     Versions |-> << VersionedCheck(MajorMinorVersion(1, 0), "seccompProfileBaseline_1_0",
                                    <<>>),
                     VersionedCheck(MajorMinorVersion(1, 19), "seccompProfileBaseline_1_19",
                                    <<>>) >>]

CheckHostPorts ==
    [ID |-> "hostPorts", Level |-> LevelBaseline,
     Versions |-> << VersionedCheck(MajorMinorVersion(1, 0), "hostPorts_1_0", <<>>) >>]

CheckRestrictedVolumes ==
    [ID |-> "restrictedVolumes", Level |-> LevelRestricted,
     Versions |-> << VersionedCheck(MajorMinorVersion(1, 0), "restrictedVolumes_1_0",
                                    <<checkHostPathVolumesID>>) >>]

CheckHostPathVolumes ==
    [ID |-> checkHostPathVolumesID, Level |-> LevelBaseline,
     Versions |-> << VersionedCheck(MajorMinorVersion(1, 0), "hostPathVolumes_1_0", <<>>) >>]

CheckCapabilitiesBaseline ==
    [ID |-> checkCapabilitiesBaselineID, Level |-> LevelBaseline,
     Versions |-> << VersionedCheck(MajorMinorVersion(1, 0), "capabilitiesBaseline_1_0",
                                    <<>>) >>]

\* options: what withOptions builds from the Option values of a call
withOptions(optionList) ==
    [withFieldErrors |-> \E i \in 1..Len(optionList) : optionList[i] = "WithErrList"]

\* Calling a CheckPodFn held by a VersionedCheck.
CallCheckPod(checkPod, g, podMetadata, podSpec, optionList) ==
    LET opts == withOptions(optionList)
    IN  CASE checkPod = "sysctls_1_0" -> sysctls_1_0(g, podMetadata, podSpec, opts)
          [] checkPod = "sysctls_1_27" -> sysctls_1_27(g, podMetadata, podSpec, opts)
          [] checkPod = "runAsUser_1_23" -> runAsUser_1_23(g, podMetadata, podSpec, opts)
          [] checkPod = "runAsNonRoot_1_0" -> runAsNonRoot_1_0(g, podMetadata, podSpec, opts)
          [] checkPod = "capabilitiesRestricted_1_22" ->
                 capabilitiesRestricted_1_22(g, podMetadata, podSpec, opts)
          [] checkPod = "capabilitiesRestricted_1_25" ->
                 capabilitiesRestricted_1_25(g, podMetadata, podSpec, opts)
          [] checkPod = "seLinuxOptions_1_0" ->
                 seLinuxOptions_1_0(g, podMetadata, podSpec, opts)
          [] checkPod = "seLinuxOptions_1_0_fields" ->
                 seLinuxOptions_1_0_fields(g, podMetadata, podSpec, opts)
          [] checkPod = "seccompProfileBaseline_1_0" ->
                 seccompProfileBaseline_1_0(g, podMetadata, podSpec, opts)
          [] checkPod = "seccompProfileBaseline_1_19" ->
                 seccompProfileBaseline_1_19(g, podMetadata, podSpec, opts)
          [] checkPod = "hostPorts_1_0" -> hostPorts_1_0(g, podMetadata, podSpec, opts)
          [] checkPod = "restrictedVolumes_1_0" ->
                 restrictedVolumes_1_0(g, podMetadata, podSpec, opts)
          [] checkPod = "hostPathVolumes_1_0" ->
                 hostPathVolumes_1_0(g, podMetadata, podSpec, opts)
          [] checkPod = "capabilitiesBaseline_1_0" ->
                 capabilitiesBaseline_1_0(g, podMetadata, podSpec, opts)

-----------------------------------------------------------------------------
(* Check registry *)

\* The init() functions of the package: each calls addCheck with the named check.
InitFunction(name) ==
    CASE name = "sysctls" -> CheckSysctls
      [] name = "runAsUser" -> CheckRunAsUser
      [] name = "runAsNonRoot" -> CheckRunAsNonRoot
      [] name = "capabilities_restricted" -> CheckCapabilitiesRestricted
      [] name = "seLinuxOptions" -> CheckSELinuxOptions
      [] name = "seLinuxOptions#2" -> CheckSELinuxOptions_fields
      [] name = "seccompProfile_baseline" -> CheckSeccompBaseline
      [] name = "hostPorts" -> CheckHostPorts
      [] name = "restrictedVolumes" -> CheckRestrictedVolumes
      [] name = "hostPathVolumes" -> CheckHostPathVolumes
      [] name = "capabilities_baseline" -> CheckCapabilitiesBaseline

\* The order in which the toolchain runs the init() functions follows the file
\* names, which the checks do not decide: either of these orders may be the one.
InitOrders ==
    { << "capabilities_restricted", "runAsNonRoot", "runAsUser", "seLinuxOptions",
         "seccompProfile_baseline", "seLinuxOptions#2", "sysctls", "hostPorts",
         "restrictedVolumes", "capabilities_baseline", "hostPathVolumes" >>,
      << "capabilities_baseline", "capabilities_restricted", "hostPathVolumes",
         "hostPorts", "restrictedVolumes", "runAsNonRoot", "runAsUser",
         "seLinuxOptions#2", "seLinuxOptions", "seccompProfile_baseline", "sysctls" >> }

IDs(reg) == { reg[i].ID : i \in 1..Len(reg) }

\* a register that appends whatever it is given
addCheck_always(reg, check) == [registry |-> Append(reg, check), status |-> "ok"]

\* register(descriptor): the catalog and the status after the call
addCheck(reg, check) ==
    IF check.ID \in IDs(reg)
    THEN [registry |-> reg, status |-> "duplicate check ID"]
    ELSE [registry |-> Append(reg, check), status |-> "ok"]

-----------------------------------------------------------------------------
(* Version resolver *)

\* resolve(descriptor, targetVersion): the index of the last implementation whose
\* MinimumVersion is not newer than the target; 0 when there is none.
Resolve(check, targetVersion) ==
    FoldIdx(LAMBDA sel, i, v :
                IF ~Older(targetVersion, v.MinimumVersion) THEN i + 1 ELSE sel,
            0, check.Versions, 0)

NoImplementation == "no applicable implementation"

-----------------------------------------------------------------------------
(* Evaluation engine *)

LevelPrivileged == "privileged"

\* one step below a tier
StepBelow(level) == IF level = LevelRestricted THEN LevelBaseline ELSE LevelPrivileged

\* The checks run for a request, in catalog order, up to a check that panics:
\* for each, the implementation selected and what it returned.
RunChecks(reg, g, request) ==
    Fold(LAMBDA runs, check :
             IF Len(runs) > 0 /\ IsPanic(runs[Len(runs)].result) THEN runs
             ELSE LET sel == Resolve(check, request.version)
                  IN  Append(runs,
                             [ID |-> check.ID, Level |-> check.Level, selected |-> sel,
                              overrides |-> IF sel = 0 THEN {}
                                            ELSE Elems(check.Versions[sel].OverrideCheckIDs),
                              result |->
                                  IF sel = 0 THEN [error |-> NoImplementation]
                                  ELSE CallCheckPod(check.Versions[sel].CheckPod, g,
                                                    request.pod.ObjectMeta, request.pod.Spec,
                                                    request.opts)]),
         <<>>, reg)

Ran(run) == run.selected # 0
Violated(run) == Ran(run) /\ ~IsPanic(run.result) /\ ~run.result.Allowed

\* the RuleIDs named as overridden by any selected implementation
OverriddenIDs(runs) == UNION { runs[i].overrides : i \in 1..Len(runs) }

\* the violated checks that are not overridden, in catalog order
Reported(runs) ==
    SelectSeq(runs, LAMBDA r : Violated(r) /\ r.ID \notin OverriddenIDs(runs))

AdmittedTier(reported) ==
    IF Len(reported) = 0 THEN LevelRestricted
    ELSE IF \E i \in 1..Len(reported) : reported[i].Level = LevelBaseline
    THEN StepBelow(LevelBaseline)
    ELSE StepBelow(LevelRestricted)

Aggregate(runs) ==
    LET reported == Reported(runs)
    IN  [Tier |-> AdmittedTier(reported),
         Outcomes |-> [i \in 1..Len(reported) |->
                          [ID |-> reported[i].ID, Level |-> reported[i].Level,
                           CheckResult |-> reported[i].result]],
         Message |-> Join([i \in 1..Len(reported) |-> reported[i].result.ForbiddenDetail],
                          "; "),
         ErrList |-> Fold(LAMBDA errs, r : errs \o r.result.ErrList, <<>>, reported),
         Selected |-> [i \in 1..Len(runs) |->
                          [ID |-> runs[i].ID, selected |-> runs[i].selected]]]

\* The package-level values after the call: what each check that ran left.
PkgAfter(reg, g, request, runs) ==
    LET ran(checkPod) ==
            \E i \in 1..Len(runs), j \in 1..Len(reg) :
                /\ runs[i].ID = reg[j].ID
                /\ runs[i].selected # 0
                /\ reg[j].Versions[runs[i].selected].CheckPod = checkPod
    IN  [g EXCEPT
            !.sysctls_allowed_1_0 =
                IF ran("sysctls_1_0") THEN sysctls_set_after(request.pod.Spec, @) ELSE @,
            !.sysctls_allowed_1_27 =
                IF ran("sysctls_1_27") THEN sysctls_set_after(request.pod.Spec, @) ELSE @]

\* What evaluate makes of the checks it ran: what it returns (the panic of a
\* check is the panic of the call), and the package-level values it leaves.
Outcome(reg, g, request, runs) ==
    [result |-> IF \E i \in 1..Len(runs) : IsPanic(runs[i].result) THEN Panic
                ELSE Aggregate(runs),
     pkg |-> PkgAfter(reg, g, request, runs)]

\* evaluate(workload, targetVersion, options)
EvaluatePod(reg, g, request) == Outcome(reg, g, request, RunChecks(reg, g, request))

-----------------------------------------------------------------------------
(* The workloads and requests the callers submit *)

SecurityContextOf(runAsNonRoot, runAsUser, seccompType, seLinux, capabilities) ==
    Ptr([RunAsNonRoot |-> runAsNonRoot, RunAsUser |-> runAsUser,
         SeccompProfile |-> IF seccompType = Nil THEN Nil
                            ELSE Ptr([Type |-> Deref(seccompType)]),
         SELinuxOptions |-> seLinux, Capabilities |-> capabilities])

\* a container that satisfies every check
GoodContainer(name) ==
    [Name |-> name,
     SecurityContext |->
         SecurityContextOf(Ptr(TRUE), Ptr(1000), Ptr("RuntimeDefault"), Nil,
                           Ptr([Add |-> <<"NET_BIND_SERVICE">>, Drop |-> <<"ALL">>])),
     Ports |-> << [HostPort |-> 0] >>]

\* a container that sets nothing
BareContainer(name) == [Name |-> name, SecurityContext |-> Nil, Ports |-> <<>>]

\* a container that asks for root, extra capabilities, a host port and an SELinux type
PrivilegedContainer(name) ==
    [Name |-> name,
     SecurityContext |->
         SecurityContextOf(Ptr(FALSE), Ptr(0), Nil,
                           Ptr([Type |-> "bad_t", User |-> "", Role |-> "r"]),
                           Ptr([Add |-> <<"SYS_ADMIN", "CHOWN">>, Drop |-> <<"CHOWN">>])),
     Ports |-> << [HostPort |-> 0], [HostPort |-> 80] >>]

\* a container that is fine but for an Unconfined seccomp profile
UnconfinedContainer(name) ==
    [Name |-> name,
     SecurityContext |->
         SecurityContextOf(Ptr(TRUE), Nil, Ptr("Unconfined"), Nil,
                           Ptr([Add |-> <<>>, Drop |-> <<"ALL">>])),
     Ports |-> <<>>]

ContainerNames == << "a", "b", "c", "d" >>

ContainerOf(kind, name) ==
    CASE kind = "good" -> GoodContainer(name)
      [] kind = "bare" -> BareContainer(name)
      [] kind = "privileged" -> PrivilegedContainer(name)
      [] kind = "unconfined" -> UnconfinedContainer(name)

ContainerKinds == { "good", "privileged" }

\* the spec.containers lists: 1..MaxContainers containers, named by position
ContainerLists ==
    UNION { { [i \in 1..n |-> ContainerOf(kinds[i], ContainerNames[i])] :
                kinds \in [1..n -> ContainerKinds] } : n \in 1..MaxContainers }

\* init and ephemeral containers, if any
ExtraContainers ==
    { [init |-> <<>>, ephemeral |-> <<>>],
      [init |-> << UnconfinedContainer("init") >>, ephemeral |-> <<>>],
      [init |-> <<>>, ephemeral |-> << BareContainer("debug") >>] }

GoodPodSecurityContext ==
    Ptr([RunAsNonRoot |-> Ptr(TRUE), RunAsUser |-> Nil,
         SeccompProfile |-> Ptr([Type |-> "RuntimeDefault"]), SELinuxOptions |-> Nil,
         Sysctls |-> << [Name |-> "net.ipv4.ip_local_port_range"],
                        [Name |-> "net.ipv4.ip_local_reserved_ports"] >>])

BadPodSecurityContext ==
    Ptr([RunAsNonRoot |-> Ptr(FALSE), RunAsUser |-> Ptr(0),
         SeccompProfile |-> Ptr([Type |-> "Unconfined"]),
         SELinuxOptions |-> Ptr([Type |-> "other_t", User |-> "u", Role |-> ""]),
         Sysctls |-> << [Name |-> "kernel.msgmax"], [Name |-> "a"] >>])

SeccompAnnotations ==
    [k \in {annotationKeyPod, annotationKeyContainerPrefix \o "a"} |->
        IF k = annotationKeyPod THEN "unconfined" ELSE "runtime/default"]

\* the pod-level parts of the workloads: annotations, securityContext, volumes, os
PodProfiles ==
    { [ann |-> <<>>, sc |-> GoodPodSecurityContext, vols |-> <<>>, os |-> Nil],
      [ann |-> SeccompAnnotations, sc |-> Nil,
       vols |-> << [Name |-> "data", Sources |-> {"emptyDir"}] >>, os |-> Nil],
      [ann |-> <<>>, sc |-> BadPodSecurityContext,
       vols |-> << [Name |-> "data", Sources |-> {"emptyDir"}],
                   [Name |-> "host", Sources |-> {"hostPath"}],
                   [Name |-> "share", Sources |-> {"nfs"}] >>, os |-> Nil],
      [ann |-> <<>>, sc |-> GoodPodSecurityContext,
       vols |-> << [Name |-> "both", Sources |-> {"emptyDir", "hostPath"}] >>,
       os |-> Ptr([Name |-> "windows"])],
      [ann |-> <<>>, sc |-> Nil,
       vols |-> << [Name |-> "host", Sources |-> {"hostPath"}] >>, os |-> Nil] }

Pods ==
    { [ObjectMeta |-> [Annotations |-> p.ann],
       Spec |-> [SecurityContext |-> p.sc, InitContainers |-> extra.init,
                 Containers |-> cs, EphemeralContainers |-> extra.ephemeral,
                 Volumes |-> p.vols, OS |-> p.os]] :
        p \in PodProfiles, extra \in ExtraContainers, cs \in ContainerLists }

AllChecks == { InitFunction(name) : name \in UNION { Elems(o) : o \in InitOrders } }

\* the minor version before v, when there is one
Before(v) == IF v[2] > 0 THEN {<<v[1], v[2] - 1>>} ELSE {}

\* The target versions requested: each version at which some check changes its
\* implementation and the one just before it, and the newest one.
TargetVersions ==
    LET mins == UNION { { c.Versions[i].MinimumVersion : i \in 1..Len(c.Versions) } :
                          c \in AllChecks }
    IN  mins \cup UNION { Before(v) : v \in mins }
             \cup { <<1, MaxMinor>> }

OptionLists == { <<>>, <<"WithErrList">> }

Requests == [pod : Pods, version : TargetVersions, opts : OptionLists]

-----------------------------------------------------------------------------
(* The process *)

PkgInit ==
    [sysctls_allowed_1_0 |-> sysctls_allowed_1_0_init,
     sysctls_allowed_1_27 |-> sysctls_allowed_1_27_init,
     selinux_allowed_types_1_0 |-> selinux_allowed_types_1_0_init,
     specRoot |-> NewPath("spec"),
     annotationsRoot |-> PathChild(NewPath("metadata"), "annotations")]

\* no component is exercised on its own
ComponentsIdle ==
    /\ readers = <<>>
    /\ locations = <<>>
    /\ realization = Nil
    /\ accumulator = Nil
    /\ addCalls = <<>>
    /\ invoked = <<>>
    /\ workload = Nil
    /\ visits = Nil
    /\ verdict = Nil

Init ==
    /\ registry = <<>>
    /\ initQueue \in InitOrders
    /\ regStatus = "none"
    /\ phase = "startup"
    /\ req = Nil
    /\ result = Nil
    /\ pkg = PkgInit
    /\ frozen = Nil
    /\ ComponentsIdle

\* The next init() function runs: addCheck(CheckX).
Register ==
    /\ phase = "startup"
    /\ Len(initQueue) > 0
    /\ LET out == addCheck(registry, InitFunction(Head(initQueue)))
       IN  /\ registry' = out.registry
           /\ regStatus' = out.status
    /\ initQueue' = Tail(initQueue)
    /\ UNCHANGED <<phase, req, result, pkg, frozen, componentVars>>

\* Every init() function has run: the catalog is handed to the evaluator.
Freeze ==
    /\ phase = "startup"
    /\ Len(initQueue) = 0
    /\ phase' = "idle"
    /\ frozen' = Ptr([registry |-> registry, pkg |-> pkg])
    /\ UNCHANGED <<registry, initQueue, regStatus, req, result, pkg, componentVars>>

\* A caller hands in a workload, a target version and options.
Submit(request) ==
    /\ phase = "idle"
    /\ req' = Ptr(request)
    /\ result' = Nil
    /\ phase' = "pending"
    /\ UNCHANGED <<registry, initQueue, regStatus, pkg, frozen, componentVars>>

\* evaluate returns: the caller has the result, the package keeps what the
\* checks left.
Return(out) ==
    /\ result' = Ptr(out.result)
    /\ pkg' = out.pkg
    /\ phase' = "done"
    /\ UNCHANGED <<registry, initQueue, regStatus, req, frozen, componentVars>>

\* evaluate runs on the request.
Evaluate ==
    /\ phase = "pending"
    /\ Return(EvaluatePod(registry, pkg, Deref(req)))

\* The caller has consumed the result; request and result are discarded.
Consume ==
    /\ phase = "done"
    /\ req' = Nil
    /\ result' = Nil
    /\ phase' = "idle"
    /\ UNCHANGED <<registry, initQueue, regStatus, pkg, frozen, componentVars>>

Next ==
    \/ Register
    \/ Freeze
    \/ \E request \in Requests : Submit(request)
    \/ Evaluate
    \/ Consume

Spec == Init /\ [][Next]_vars

-----------------------------------------------------------------------------
(* Evaluations running at the same time over the shared catalog *)

\* admission requests served at the same time
MaxEvaluators == 2

Evaluators == 1..MaxEvaluators

\* An evaluation that has not been called: pos is how many catalog entries it
\* has iterated, seen the RuleIDs of those entries.
ReaderIdle == [pc |-> "idle", pos |-> 0, seen |-> <<>>]

\* the package is being initialized, nothing has been registered or called
EngineStarting ==
    /\ registry = <<>>
    /\ initQueue \in InitOrders
    /\ regStatus = "none"
    /\ phase = "startup"
    /\ req = Nil
    /\ result = Nil
    /\ pkg = PkgInit
    /\ frozen = Nil

ConcurrentInit ==
    /\ EngineStarting
    /\ readers = [e \in Evaluators |-> ReaderIdle]
    /\ locations = <<>>
    /\ realization = Nil
    /\ accumulator = Nil
    /\ addCalls = <<>>
    /\ invoked = <<>>
    /\ workload = Nil
    /\ visits = Nil
    /\ verdict = Nil

\* a caller that would start an evaluation while the package is still initializing
EvaluateReachable_during_init == TRUE

\* Code outside the package runs, and can call evaluate, only once every init()
\* function of the package has returned.
EvaluateReachable == phase # "startup"

\* evaluator e is called and starts to iterate the catalog
BeginEvaluate(e) ==
    /\ EvaluateReachable
    /\ readers[e].pc \in {"idle", "done"}
    /\ readers' = [readers EXCEPT ![e] = [pc |-> "running", pos |-> 0, seen |-> <<>>]]
    /\ UNCHANGED <<engineVars, locations, realization, accumulator, addCalls, invoked,
                   workload, visits, verdict>>

\* evaluator e reads the next entry of the catalog
ReadNext(e) ==
    /\ readers[e].pc = "running"
    /\ readers[e].pos < Len(registry)
    /\ readers' = [readers EXCEPT ![e].pos = @ + 1,
                                  ![e].seen = Append(@, registry[readers[e].pos + 1].ID)]
    /\ UNCHANGED <<engineVars, locations, realization, accumulator, addCalls, invoked,
                   workload, visits, verdict>>

\* evaluator e has reached the end of the catalog and returns
FinishEvaluate(e) ==
    /\ readers[e].pc = "running"
    /\ readers[e].pos >= Len(registry)
    /\ readers' = [readers EXCEPT ![e].pc = "done"]
    /\ UNCHANGED <<engineVars, locations, realization, accumulator, addCalls, invoked,
                   workload, visits, verdict>>

ConcurrentNext ==
    \/ Register
    \/ Freeze
    \/ \E e \in Evaluators : BeginEvaluate(e)
    \/ \E e \in Evaluators : ReadNext(e)
    \/ \E e \in Evaluators : FinishEvaluate(e)

ConcurrentSpec == ConcurrentInit /\ [][ConcurrentNext]_vars

-----------------------------------------------------------------------------
(* Field locations built and realized on their own *)

\* locations built in one run, the root included
MaxLocations == 4

\* the names, indexes and keys handed to child, index and key
ChildNames == { "securityContext", "runAsUser" }
Indexes == { 2 }
Keys == { "k" }

\* A location: the PathFn, whether its root is present, the root's rendering and
\* the calls that derived the PathFn from the root, and the location it was
\* derived from (0 for a root).
Location(fn, present, root, made, parent) ==
    [fn |-> fn, present |-> present, root |-> root, made |-> made, parent |-> parent]

\* the roots: a disabled one and package-level locations
PathRoots ==
    { Location(withPath(Nil), FALSE, "", <<>>, 0),
      Location(specPath(PkgInit), TRUE, "spec", <<>>, 0),
      Location(annotationsPath(PkgInit), TRUE, "metadata.annotations", <<>>, 0),
      Location(containersFldPath(PkgInit), TRUE, "spec",
               << [op |-> "child", arg |-> "containers"] >>, 0) }

\* nothing of the engine runs
EngineAbsent ==
    /\ registry = <<>>
    /\ initQueue = <<>>
    /\ regStatus = "none"
    /\ phase = "startup"
    /\ req = Nil
    /\ result = Nil
    /\ pkg = PkgInit
    /\ frozen = Nil

PathInit ==
    /\ EngineAbsent
    /\ locations \in { <<root>> : root \in PathRoots }
    /\ realization = Nil
    /\ readers = <<>>
    /\ accumulator = Nil
    /\ addCalls = <<>>
    /\ invoked = <<>>
    /\ workload = Nil
    /\ visits = Nil
    /\ verdict = Nil

\* a location derived from location p is added
Derived(p, fn, op, arg) ==
    /\ Len(locations) < MaxLocations
    /\ locations' = Append(locations,
                           Location(fn, locations[p].present, locations[p].root,
                                    Append(locations[p].made, [op |-> op, arg |-> arg]), p))
    /\ UNCHANGED <<engineVars, realization, readers, accumulator, addCalls, invoked,
                   workload, visits, verdict>>

\* locations[p].fn.child(name)
DeriveChild(p, name) == Derived(p, child(locations[p].fn, name), "child", name)

\* locations[p].fn.index(i)
DeriveIndex(p, i) == Derived(p, index(locations[p].fn, i), "index", i)

\* locations[p].fn.key(k)
DeriveKey(p, k) == Derived(p, key(locations[p].fn, k), "key", k)

\* var path *field.Path; if pathFn != nil { path = pathFn() }
RealizeIfSet(pathFn) == IF pathFn # Nil THEN CallPathFn(pathFn) ELSE Nil

\* location i is realized
RealizeLocation(i) ==
    /\ realization' = Ptr([loc |-> i, path |-> RealizeIfSet(locations[i].fn)])
    /\ UNCHANGED <<engineVars, locations, readers, accumulator, addCalls, invoked,
                   workload, visits, verdict>>

PathNext ==
    \/ \E p \in 1..Len(locations) : \E name \in ChildNames : DeriveChild(p, name)
    \/ \E p \in 1..Len(locations) : \E i \in Indexes : DeriveIndex(p, i)
    \/ \E p \in 1..Len(locations) : \E k \in Keys : DeriveKey(p, k)
    \/ \E i \in 1..Len(locations) : RealizeLocation(i)

PathSpec == PathInit /\ [][PathNext]_vars

-----------------------------------------------------------------------------
(* A violations accumulator used on its own *)

\* Add calls made on one accumulator
MaxAdds == 3

Labels == { "x", "y" }

\* a PathFn that is not nil and returns nil
NilPathFn == Ptr([root |-> Nil, segs |-> <<>>])

\* The lists of constructors handed to Add: none, one, a nil one, two, one that
\* returns nil followed by one that does not, and a nil one between two.
ErrFnLists ==
    { <<>>,
      << forbidden(runAsNonRootPath(PkgInit)) >>,
      << Nil >>,
      << forbidden(runAsNonRootPath(PkgInit)),
         ErrFn_withBadValue(required(seccompProfileTypePath(PkgInit)), <<"false">>) >>,
      << forbidden(NilPathFn),
         ErrFn_withBadValue(required(seccompProfileTypePath(PkgInit)), <<"false">>) >>,
      << ErrFn_withBadValue(required(seccompProfileTypePath(PkgInit)), <<"false">>),
         Nil,
         forbidden(runAsNonRootPath(PkgInit)) >> }

\* violations[T]{errFn: errFn}, of the type that takes the path and options per call
ViolationsAt(errFn) == [data |-> <<>>, badContainers |-> <<>>, errs |-> <<>>, errFn |-> errFn]

\* v.errFn(path, data): a Forbidden error carrying data, or no error
CallErrFnAt(errFn, at, data) ==
    IF Deref(errFn) = "Forbidden" THEN Ptr(withBadValue(FieldForbidden(at), data)) ELSE Nil

\* the calls of v.errFn that v.Add(data, badContainer, pathFn, opts) makes
InvokedAt(v, data, pathFn, opts) ==
    errListHandler(opts,
                   IF v.errFn # Nil /\ RealizeIfSet(pathFn) # Nil
                   THEN << [at |-> PathString(RealizeIfSet(pathFn)), data |-> data] >>
                   ELSE <<>>)

\* v.Add(data, badContainer, pathFn, opts)
AddAt(v, data, badContainer, pathFn, opts) ==
    [v EXCEPT !.data = Append(@, data),
              !.badContainers = IF badContainer # "" THEN Append(@, badContainer) ELSE @,
              !.errs = @ \o errListHandler(
                                opts,
                                IF v.errFn # Nil /\ RealizeIfSet(pathFn) # Nil
                                   /\ CallErrFnAt(v.errFn, RealizeIfSet(pathFn), data) # Nil
                                THEN << Deref(CallErrFnAt(v.errFn, RealizeIfSet(pathFn), data)) >>
                                ELSE <<>>)]

\* the constructors among errFns that v.Add(data, errFns...) calls, in order
Invoked(v, errFns) ==
    IF v.withFieldErrors THEN SelectSeq(errFns, LAMBDA errFn : errFn # Nil) ELSE <<>>

ViolationsInit ==
    /\ EngineAbsent
    /\ accumulator \in { NewViolations(TRUE), ZeroViolations,
                         ViolationsAt(Nil), ViolationsAt(Ptr("Forbidden")),
                         ViolationsAt(Ptr("none")) }
    /\ addCalls = <<>>
    /\ invoked = <<>>
    /\ readers = <<>>
    /\ locations = <<>>
    /\ realization = Nil
    /\ workload = Nil
    /\ visits = Nil
    /\ verdict = Nil

\* accumulator.Add(data, errFns...)
AddCall(data, errFns) ==
    /\ "withFieldErrors" \in DOMAIN accumulator
    /\ Len(addCalls) < MaxAdds
    /\ accumulator' = Add(accumulator, data, errFns)
    /\ addCalls' = Append(addCalls, [data |-> data, errFns |-> errFns])
    /\ invoked' = invoked \o Invoked(accumulator, errFns)
    /\ UNCHANGED <<engineVars, readers, locations, realization, workload, visits, verdict>>

\* accumulator.Add(data, badContainer, pathFn, opts)
AddAtCall(data, badContainer, pathFn, opts) ==
    /\ "errFn" \in DOMAIN accumulator
    /\ Len(addCalls) < MaxAdds
    /\ accumulator' = AddAt(accumulator, data, badContainer, pathFn, opts)
    /\ addCalls' = Append(addCalls, [data |-> data, badContainer |-> badContainer,
                                     pathFn |-> pathFn, opts |-> opts])
    /\ invoked' = invoked \o InvokedAt(accumulator, data, pathFn, opts)
    /\ UNCHANGED <<engineVars, readers, locations, realization, workload, visits, verdict>>

ViolationsNext ==
    \/ \E data \in Labels : \E errFns \in ErrFnLists : AddCall(data, errFns)
    \/ \E data \in Labels : \E badContainer \in {"", "a"} :
           \E pathFn \in {Nil, runAsNonRootPath(PkgInit)} :
               \E optionList \in OptionLists :
                   AddAtCall(data, badContainer, pathFn, withOptions(optionList))

ViolationsSpec == ViolationsInit /\ [][ViolationsNext]_vars

-----------------------------------------------------------------------------
(* The container visitor and the runAsNonRoot rule on workloads of their own *)

\* a container by what it says about runAsNonRoot: no securityContext ("none"),
\* a securityContext without runAsNonRoot ("unset"), or runAsNonRoot true or false
ContainerSetting(name, setting) ==
    [Name |-> name,
     SecurityContext |->
         CASE setting = "none" -> Nil
           [] setting = "unset" -> SecurityContextOf(Nil, Nil, Nil, Nil, Nil)
           [] setting = "true" -> SecurityContextOf(Ptr(TRUE), Nil, Nil, Nil, Nil)
           [] setting = "false" -> SecurityContextOf(Ptr(FALSE), Nil, Nil, Nil, Nil),
     Ports |-> <<>>]

\* the lists of lo..MaxContainers containers with the given names and settings
SettingLists(names, settings, lo) ==
    UNION { { [i \in 1..n |-> ContainerSetting(names[i], kinds[i])] :
                kinds \in [1..n -> settings] } : n \in lo..MaxContainers }

\* spec.securityContext by what it says about runAsNonRoot
PodSetting(setting) ==
    CASE setting = "none" -> Nil
      [] setting = "unset" ->
             Ptr([RunAsNonRoot |-> Nil, RunAsUser |-> Nil, SeccompProfile |-> Nil,
                  SELinuxOptions |-> Nil, Sysctls |-> <<>>])
      [] setting = "true" ->
             Ptr([RunAsNonRoot |-> Ptr(TRUE), RunAsUser |-> Nil, SeccompProfile |-> Nil,
                  SELinuxOptions |-> Nil, Sysctls |-> <<>>])
      [] setting = "false" ->
             Ptr([RunAsNonRoot |-> Ptr(FALSE), RunAsUser |-> Nil, SeccompProfile |-> Nil,
                  SELinuxOptions |-> Nil, Sysctls |-> <<>>])

\* The workloads: any pod-level setting, up to MaxContainers init containers,
\* one to MaxContainers regular containers, up to MaxContainers ephemeral ones.
Workloads ==
    { [ObjectMeta |-> [Annotations |-> <<>>],
       Spec |-> [SecurityContext |-> PodSetting(pod), InitContainers |-> init,
                 Containers |-> regular, EphemeralContainers |-> ephemeral,
                 Volumes |-> <<>>, OS |-> Nil]] :
        pod \in { "none", "unset", "true", "false" },
        init \in SettingLists(<< "i1", "i2", "i3", "i4" >>, { "unset", "false" }, 0),
        regular \in SettingLists(<< "a", "b", "c", "d" >>, { "none", "true", "false" }, 1),
        ephemeral \in SettingLists(<< "e1", "e2", "e3", "e4" >>, { "none", "true" }, 0) }

VisitorInit ==
    /\ EngineAbsent
    /\ workload \in { Ptr([pod |-> pod, opts |-> optionList]) :
                          pod \in Workloads, optionList \in OptionLists }
    /\ visits = Nil
    /\ verdict = Nil
    /\ readers = <<>>
    /\ locations = <<>>
    /\ realization = Nil
    /\ accumulator = Nil
    /\ addCalls = <<>>
    /\ invoked = <<>>

\* visitContainers runs on the workload with a visitor that records its calls
Visit ==
    /\ visits = Nil
    /\ visits' = Ptr(visitContainers(pkg, Deref(workload).pod.Spec,
                                     withOptions(Deref(workload).opts)))
    /\ UNCHANGED <<engineVars, workload, verdict, readers, locations, realization,
                   accumulator, addCalls, invoked>>

\* CheckRunAsNonRoot's CheckPod runs on the workload
CheckWorkload ==
    /\ verdict = Nil
    /\ verdict' = Ptr(runAsNonRoot_1_0(pkg, Deref(workload).pod.ObjectMeta,
                                       Deref(workload).pod.Spec,
                                       withOptions(Deref(workload).opts)))
    /\ UNCHANGED <<engineVars, workload, visits, readers, locations, realization,
                   accumulator, addCalls, invoked>>

VisitorNext ==
    \/ Visit
    \/ CheckWorkload

VisitorSpec == VisitorInit /\ [][VisitorNext]_vars

-----------------------------------------------------------------------------
(* The rule implementations called one at a time on workloads of their own *)

\* volumes of a pod, sysctls of a pod
MaxVolumes == 3
MaxSysctls == 2

\* the CheckPod functions of the rules
CheckPodFns ==
    { "sysctls_1_0", "sysctls_1_27", "runAsUser_1_23", "runAsNonRoot_1_0",
      "capabilitiesRestricted_1_22", "capabilitiesRestricted_1_25",
      "seLinuxOptions_1_0", "seLinuxOptions_1_0_fields",
      "seccompProfileBaseline_1_0", "seccompProfileBaseline_1_19",
      "hostPorts_1_0", "restrictedVolumes_1_0" }

\* a pod of one regular container "a" that sets nothing, but for the parts given
PodWith(sc, init, regular, ephemeral, vols, os) ==
    [ObjectMeta |-> [Annotations |-> <<>>],
     Spec |-> [SecurityContext |-> sc, InitContainers |-> init,
               Containers |-> regular, EphemeralContainers |-> ephemeral,
               Volumes |-> vols, OS |-> os]]

\* the volume sources a volume of the workloads sets: none, an allowed one, each
\* of the restricted ones, an allowed one next to a restricted one
VolumeSourceSets ==
    { {}, {"emptyDir"}, {"secret"}, {"emptyDir", "hostPath"} }
    \cup { {s} : s \in { "hostPath", "gcePersistentDisk", "awsElasticBlockStore",
                         "gitRepo", "nfs", "iscsi", "glusterfs", "rbd", "flexVolume",
                         "cinder", "cephfs", "flocker", "fc", "azureFile",
                         "vsphereVolume", "quobyte", "azureDisk",
                         "photonPersistentDisk", "portworxVolume", "scaleIO",
                         "storageos" } }

VolumeNames == << "v0", "v1", "v2", "v3", "v4" >>

\* spec.volumes: one volume of any kind, or 2..MaxVolumes volumes of a few kinds
VolumeLists ==
    { << [Name |-> "v0", Sources |-> s] >> : s \in VolumeSourceSets }
    \cup UNION { { [i \in 1..n |-> [Name |-> VolumeNames[i], Sources |-> kinds[i]]] :
                     kinds \in [1..n -> { {}, {"emptyDir"}, {"hostPath"}, {"nfs"} }] } :
                 n \in 2..MaxVolumes }

SysctlNames ==
    { "kernel.shm_rmid_forced", "net.ipv4.ip_local_port_range", "net.ipv4.tcp_syncookies",
      "net.ipv4.ping_group_range", "net.ipv4.ip_unprivileged_port_start",
      "net.ipv4.ip_local_reserved_ports", "kernel.msgmax", "vm.swappiness" }

\* spec.securityContext.sysctls: up to MaxSysctls sysctls
SysctlLists ==
    UNION { { [i \in 1..n |-> [Name |-> names[i]]] : names \in [1..n -> SysctlNames] } :
              n \in 0..MaxSysctls }

\* a container by what it says about capabilities
ContainerCapabilities(name, kind) ==
    [Name |-> name,
     SecurityContext |->
         CASE kind = "none" -> Nil
           [] kind = "unset" -> SecurityContextOf(Nil, Nil, Nil, Nil, Nil)
           [] kind = "dropAll" ->
                  SecurityContextOf(Nil, Nil, Nil, Nil,
                                    Ptr([Add |-> <<>>, Drop |-> <<"ALL">>]))
           [] kind = "bind" ->
                  SecurityContextOf(Nil, Nil, Nil, Nil,
                                    Ptr([Add |-> <<"NET_BIND_SERVICE">>,
                                         Drop |-> <<"ALL">>]))
           [] kind = "admin" ->
                  SecurityContextOf(Nil, Nil, Nil, Nil,
                                    Ptr([Add |-> <<"SYS_ADMIN">>, Drop |-> <<"ALL">>]))
           [] kind = "chown" ->
                  SecurityContextOf(Nil, Nil, Nil, Nil,
                                    Ptr([Add |-> <<"NET_BIND_SERVICE", "CHOWN">>,
                                         Drop |-> <<"CHOWN">>]))
           [] kind = "time" ->
                  SecurityContextOf(Nil, Nil, Nil, Nil,
                                    Ptr([Add |-> <<"SYS_TIME", "AUDIT_WRITE">>,
                                         Drop |-> <<"KILL", "ALL">>])),
     Ports |-> <<>>]

CapabilityKinds == { "none", "unset", "dropAll", "bind", "admin", "chown" }

\* spec.containers: 1..MaxContainers containers, named by position
CapabilityLists ==
    UNION { { [i \in 1..n |-> ContainerCapabilities(ContainerNames[i], kinds[i])] :
                kinds \in [1..n -> CapabilityKinds] } : n \in 1..MaxContainers }

\* a securityContext that is there and sets nothing
EmptyPodSecurityContext ==
    Ptr([RunAsNonRoot |-> Nil, RunAsUser |-> Nil, SeccompProfile |-> Nil,
         SELinuxOptions |-> Nil, Sysctls |-> <<>>])

\* containers that set nothing: without a securityContext, or with an empty one
UnsetLists(names, lo) ==
    UNION { { [i \in 1..n |-> ContainerCapabilities(names[i], kinds[i])] :
                kinds \in [1..n -> { "none", "unset" }] } : n \in lo..MaxContainers }

\* the workloads: pods that vary in their volumes, in their sysctls, in their
\* capabilities and os, pods that set nothing, and the pods the engine is given
RulePods ==
    { PodWith(Nil, <<>>, << BareContainer("a") >>, <<>>, vols, Nil) : vols \in VolumeLists }
    \cup { PodWith(Ptr([Deref(EmptyPodSecurityContext) EXCEPT !.Sysctls = list]),
                   <<>>, << BareContainer("a") >>, <<>>, <<>>, Nil) : list \in SysctlLists }
    \cup { PodWith(Nil, init, regular, <<>>, <<>>, os) :
               init \in { <<>>, << ContainerCapabilities("init", "time") >> },
               regular \in CapabilityLists,
               os \in { Nil, Ptr([Name |-> "windows"]), Ptr([Name |-> "linux"]) } }
    \cup { PodWith(sc, init, regular, <<>>, <<>>, Nil) :
               sc \in { Nil, EmptyPodSecurityContext },
               init \in UnsetLists(<< "i1", "i2", "i3", "i4" >>, 0),
               regular \in UnsetLists(ContainerNames, 1) }
    \cup Pods

RuleInit ==
    /\ EngineAbsent
    /\ workload \in { Ptr([pod |-> pod, opts |-> optionList]) :
                          pod \in RulePods, optionList \in OptionLists }
    /\ verdict = Nil
    /\ visits = Nil
    /\ readers = <<>>
    /\ locations = <<>>
    /\ realization = Nil
    /\ accumulator = Nil
    /\ addCalls = <<>>
    /\ invoked = <<>>

\* the package-level values after checkPod has run on podSpec
PkgAfterCall(g, checkPod, podSpec) ==
    [g EXCEPT
        !.sysctls_allowed_1_0 =
            IF checkPod = "sysctls_1_0" THEN sysctls_set_after(podSpec, @) ELSE @,
        !.sysctls_allowed_1_27 =
            IF checkPod = "sysctls_1_27" THEN sysctls_set_after(podSpec, @) ELSE @]

\* A caller calls the CheckPod function of a rule implementation on the workload.
CallRule(checkPod) ==
    /\ verdict = Nil
    /\ verdict' = Ptr([checkPod |-> checkPod,
                       result |-> CallCheckPod(checkPod, pkg, Deref(workload).pod.ObjectMeta,
                                               Deref(workload).pod.Spec,
                                               Deref(workload).opts)])
    /\ pkg' = PkgAfterCall(pkg, checkPod, Deref(workload).pod.Spec)
    /\ UNCHANGED <<registry, initQueue, regStatus, phase, req, result, frozen, workload,
                   visits, readers, locations, realization, accumulator, addCalls,
                   invoked>>

\* The caller has read the result and drops it.
DropResult ==
    /\ verdict # Nil
    /\ verdict' = Nil
    /\ UNCHANGED <<engineVars, workload, visits, readers, locations, realization,
                   accumulator, addCalls, invoked>>

RuleNext ==
    \/ \E checkPod \in CheckPodFns : CallRule(checkPod)
    \/ DropResult

RuleSpec == RuleInit /\ [][RuleNext]_vars

-----------------------------------------------------------------------------
(* Properties *)

TheRequest == Deref(req)
TheResult == Deref(result)

\* evaluate has run on the request in hand and returned an aggregate
Returned == phase = "done" /\ ~IsPanic(TheResult)

\* For each catalog entry and the request in hand: the implementation resolve
\* selects, what that implementation returns when run on its own, and the
\* RuleIDs it overrides.
OwnRuns ==
    [i \in 1..Len(registry) |->
        LET sel == Resolve(registry[i], TheRequest.version)
        IN  [selected |-> sel,
             result |-> IF sel = 0 THEN [error |-> NoImplementation]
                        ELSE CallCheckPod(registry[i].Versions[sel].CheckPod, pkg,
                                          TheRequest.pod.ObjectMeta, TheRequest.pod.Spec,
                                          TheRequest.opts),
             overrides |-> IF sel = 0 THEN {}
                           ELSE Elems(registry[i].Versions[sel].OverrideCheckIDs)]]

\* an implementation was selected and returned allowed=false
ViolatedIn(own, i) ==
    own[i].selected # 0 /\ ~IsPanic(own[i].result) /\ ~own[i].result.Allowed

\* the violated catalog entries that no selected implementation overrides
KeptIn(own) ==
    LET overridden == UNION { own[j].overrides : j \in DOMAIN own }
    IN  { i \in DOMAIN own : ViolatedIn(own, i) /\ registry[i].ID \notin overridden }

OutcomeIDs == { TheResult.Outcomes[n].ID : n \in 1..Len(TheResult.Outcomes) }

Entry(id) == { i \in 1..Len(registry) : registry[i].ID = id }

\* C1: resolve selects the last implementation of the descriptor whose
\* MinimumVersion is not newer than the target, never the first match: none of
\* the later implementations is applicable, sysctls resolves to sysctls_1_0
\* for targets 1.0 to 1.26 and to sysctls_1_27 from 1.27 on, and evaluate
\* uses that selection.
C1_ResolveSelectsLast ==
    req # Nil =>
        \A i \in 1..Len(registry) :
            LET check == registry[i]
                t == TheRequest.version
                k == Resolve(check, t)
                Applicable(j) == ~Older(t, check.Versions[j].MinimumVersion)
            IN  /\ k \in 0..Len(check.Versions)
                /\ (k # 0) => Applicable(k)
                /\ \A j \in 1..Len(check.Versions) : Applicable(j) => j <= k
                /\ (check.ID = "sysctls" /\ ~Older(t, <<1, 0>>)) =>
                       /\ k # 0
                       /\ check.Versions[k].CheckPod =
                              IF Older(t, <<1, 27>>) THEN "sysctls_1_0" ELSE "sysctls_1_27"
                /\ Returned => TheResult.Selected[i] = [ID |-> check.ID, selected |-> k]

\* C1 witness: an evaluation at a target newer than 1.27 ran and used the
\* second sysctls implementation, where the first one is applicable too.
C1_Witness ==
    /\ Returned
    /\ Older(<<1, 27>>, TheRequest.version)
    /\ \E i \in Entry("sysctls") :
           /\ ~Older(TheRequest.version, registry[i].Versions[1].MinimumVersion)
           /\ TheResult.Selected[i].selected = 2

\* What the aggregate holds of catalog entries a and b: nothing of a (no
\* outcome, no detail in the message, no error in the error list), and the
\* outcome of b as b returned it.
AbsentFrom(agg, own, a) ==
    LET details == [n \in 1..Len(agg.Outcomes) |->
                       agg.Outcomes[n].CheckResult.ForbiddenDetail]
    IN  /\ \A n \in 1..Len(agg.Outcomes) : agg.Outcomes[n].ID # registry[a].ID
        /\ agg.Message = Join(details, "; ")
        /\ own[a].result.ForbiddenDetail \notin Elems(details)
        /\ Elems(agg.ErrList) \cap Elems(own[a].result.ErrList) = {}

PresentIn(agg, own, b) ==
    \E n \in 1..Len(agg.Outcomes) :
        agg.Outcomes[n].ID = registry[b].ID /\ agg.Outcomes[n].CheckResult = own[b].result

\* the admitted tier for a set of violated catalog entries
TierFor(kept) ==
    LET levels == { registry[i].Level : i \in kept }
    IN  IF levels = {} THEN LevelRestricted
        ELSE IF LevelBaseline \in levels THEN LevelPrivileged
        ELSE LevelBaseline

\* C2: override suppression.  For every workload and target version, when the
\* selected implementation of rule B overrides rule A and both return
\* allowed=false, evaluate returns an aggregate that holds B's outcome and
\* nothing of A: no outcome of A, no detail of A in the message, no error of A
\* in the error list.  So it is for hostPathVolumes under restrictedVolumes and
\* for capabilities_baseline under capabilities_restricted.
C2_OverrideSuppression ==
    phase = "done" =>
        LET own == OwnRuns
            Suppressed(a, b) ==
                (ViolatedIn(own, a) /\ ViolatedIn(own, b)) =>
                    /\ Returned
                    /\ PresentIn(TheResult, own, b)
                    /\ AbsentFrom(TheResult, own, a)
        IN  /\ \A a, b \in 1..Len(registry) :
                   registry[a].ID \in own[b].overrides => Suppressed(a, b)
            /\ \A a \in Entry(checkHostPathVolumesID), b \in Entry("restrictedVolumes") :
                   Suppressed(a, b)
            /\ \A a \in Entry(checkCapabilitiesBaselineID),
                  b \in Entry("capabilities_restricted") :
                   own[b].selected # 0 => Suppressed(a, b)

\* C2 on the evaluations that return an aggregate
C2_OverrideSuppression_Returned == Returned => C2_OverrideSuppression

\* C3: the override set is the union of the override sets of the
\* implementations selected for the target across the catalog; a violated rule
\* named in it leaves nothing in what evaluate returns (no outcome, no detail,
\* no error, no say in the tier, which is that of the other violated rules),
\* whether or not the rule that names it is violated; capabilities_baseline is
\* never reported once an implementation of capabilities_restricted is selected.
C3_OverrideUnion ==
    Returned =>
        LET own == OwnRuns
            union == UNION { own[j].overrides : j \in 1..Len(registry) }
            others == { i \in 1..Len(registry) :
                          ViolatedIn(own, i) /\ registry[i].ID \notin union }
        IN  /\ \A a \in 1..Len(registry) :
                   (ViolatedIn(own, a) /\ registry[a].ID \in union) =>
                       /\ AbsentFrom(TheResult, own, a)
                       /\ TheResult.Tier = TierFor(others)
            /\ \A b \in Entry("capabilities_restricted") :
                   own[b].selected # 0 => checkCapabilitiesBaselineID \notin OutcomeIDs

\* C3 witness: capabilities_baseline is violated, the selected implementation
\* of capabilities_restricted overrides it and is itself not violated, and the
\* aggregate holds no capabilities_baseline outcome.
C3_Witness ==
    /\ Returned
    /\ \E a \in Entry(checkCapabilitiesBaselineID), b \in Entry("capabilities_restricted") :
           /\ ViolatedIn(OwnRuns, a)
           /\ OwnRuns[b].selected # 0
           /\ ~ViolatedIn(OwnRuns, b)
           /\ registry[a].ID \in OwnRuns[b].overrides
           /\ registry[a].ID \notin OutcomeIDs

\* C4: every evaluation reports an admitted tier, one step below the lowest
\* tier among the rules violated after suppression: below Baseline
\* (privileged) when a Baseline rule is violated, Baseline when only Restricted
\* rules are, and Restricted when nothing is violated.
C4_AdmittedTier ==
    phase = "done" => (Returned /\ TheResult.Tier = TierFor(KeptIn(OwnRuns)))

\* C4 on the evaluations that return an aggregate
C4_AdmittedTier_Returned == Returned => TheResult.Tier = TierFor(KeptIn(OwnRuns))

\* what C5 says of an aggregate
InRegistrationOrder(agg) ==
    LET own == OwnRuns
        kept == KeptIn(own)
        order == SelectSeq([i \in 1..Len(registry) |-> i], LAMBDA i : i \in kept)
    IN  /\ [n \in 1..Len(agg.Outcomes) |-> agg.Outcomes[n].ID]
               = [n \in 1..Len(order) |-> registry[order[n]].ID]
        /\ agg.Message =
               Join([n \in 1..Len(order) |-> own[order[n]].result.ForbiddenDetail], "; ")
        /\ agg.ErrList = Fold(LAMBDA errs, i : errs \o own[i].result.ErrList, <<>>, order)

\* C5: every evaluation returns a message that joins the details of the
\* violated, non-suppressed rules in the order of the catalog (registration
\* order) and an error list that is the concatenation of their error lists in
\* that same order, each list as the rule produced it.
C5_RegistrationOrder == phase = "done" => (Returned /\ InRegistrationOrder(TheResult))

\* C5 on the evaluations that return an aggregate
C5_RegistrationOrder_Returned == Returned => InRegistrationOrder(TheResult)

\* C6: evaluation is total: every evaluation returns a result, no rule
\* implementation faults.
C6_EvaluationTotal == phase = "done" => ~IsPanic(TheResult)

C8_NoSideEffects ==
    [][(phase = "pending" /\ phase' = "done") =>
           /\ req' = req
           /\ registry' = registry
           /\ pkg' = pkg]_vars

\* C8 witness: a violated evaluation with field errors has returned, and the
\* catalog and the package-level values are those registration left.
C8_Witness ==
    /\ Returned
    /\ withOptions(TheRequest.opts).withFieldErrors
    /\ TheResult.Tier = LevelPrivileged
    /\ \E n \in 1..Len(TheResult.Outcomes) : TheResult.Outcomes[n].ID = "sysctls"
    /\ registry = Deref(frozen).registry
    /\ pkg = PkgInit

\* C9: resolving a descriptor at a target older than the MinimumVersion of its
\* first implementation selects nothing and reports 'no applicable
\* implementation': so for runAsUser at 1.22 and capabilities_restricted at 1.21.
C9_NoApplicableImplementation ==
    req # Nil =>
        LET t == TheRequest.version
            runs == RunChecks(registry, pkg, TheRequest)
            None(i) ==
                /\ Resolve(registry[i], t) = 0
                /\ (i <= Len(runs)) => runs[i].result = [error |-> NoImplementation]
                /\ Returned => TheResult.Selected[i].selected = 0
        IN  /\ \A i \in 1..Len(registry) :
                   Older(t, registry[i].Versions[1].MinimumVersion) => None(i)
            /\ \A i \in Entry("runAsUser") : (t = <<1, 22>>) => None(i)
            /\ \A i \in Entry("capabilities_restricted") : (t = <<1, 21>>) => None(i)

\* C9 witness: an evaluation at 1.22 returned with no implementation of
\* runAsUser selected.
C9_Witness ==
    /\ Returned
    /\ TheRequest.version = <<1, 22>>
    /\ \E i \in Entry("runAsUser") :
           /\ Resolve(registry[i], TheRequest.version) = 0
           /\ TheResult.Selected[i].selected = 0

NoSharedID(reg) == \A i, j \in 1..Len(reg) : reg[i].ID = reg[j].ID => i = j

\* C10: registering a check whose ID is already in the catalog fails and
\* leaves the catalog as it was; a check with a new ID is appended; no two
\* catalog entries ever share an ID.
C10_RegisterRejectsDuplicates ==
    [][(phase = "startup" /\ Len(initQueue) > 0) =>
           LET check == InitFunction(Head(initQueue))
           IN  /\ (check.ID \in IDs(registry)) =>
                      (registry' = registry /\ regStatus' = "duplicate check ID")
               /\ (check.ID \notin IDs(registry)) =>
                      (registry' = Append(registry, check) /\ regStatus' = "ok")
               /\ NoSharedID(registry')]_vars

\* C10 witness: a registration has just been rejected as a duplicate, the
\* catalog holding the first seLinuxOptions check once.
C10_Witness ==
    /\ regStatus = "duplicate check ID"
    /\ Cardinality(Entry("seLinuxOptions")) = 1
    /\ NoSharedID(registry)

-----------------------------------------------------------------------------
(* Registration and concurrent evaluations *)

\* the RuleIDs of a catalog, in catalog order
CatalogIDs(reg) == [i \in 1..Len(reg) |-> reg[i].ID]

\* the catalog once every init() function has run on an empty catalog
RECURSIVE CompleteCatalog(_, _)
CompleteCatalog(reg, queue) ==
    IF Len(queue) = 0 THEN reg
    ELSE CompleteCatalog(addCheck(reg, InitFunction(Head(queue))).registry, Tail(queue))

Started(e) == readers[e].pc # "idle"

\* C11: Registration strictly precedes evaluation.  No evaluation has started
\* while an init() function is still to run; no step changes the catalog or runs
\* a registration once an evaluation has started; and every evaluation, however
\* many run at the same time, iterates the one complete catalog: what it has seen
\* is a prefix of the complete catalog's RuleIDs, and all of them when it returns.
C11_RegistrationPrecedesEvaluation ==
    /\ [](\A e \in Evaluators :
             Started(e) =>
                 /\ Len(initQueue) = 0
                 /\ phase # "startup"
                 /\ frozen # Nil
                 /\ registry = Deref(frozen).registry
                 /\ registry \in { CompleteCatalog(<<>>, q) : q \in InitOrders }
                 /\ readers[e].seen
                        = SubSeq(CatalogIDs(registry), 1, readers[e].pos)
                 /\ readers[e].pc = "done" =>
                        readers[e].seen = CatalogIDs(Deref(frozen).registry))
    /\ [][(\E e \in Evaluators : Started(e)) =>
              /\ registry' = registry
              /\ initQueue' = initQueue
              /\ regStatus' = regStatus]_vars

\* two evaluations are under way at different positions of the complete catalog,
\* and one has returned before while the other is still iterating
C11_Witness ==
    /\ Len(registry) >= 10
    /\ readers[1].pc = "running" /\ readers[1].pos = 3
    /\ readers[2].pc = "done" /\ Len(readers[2].seen) = Len(registry)

-----------------------------------------------------------------------------
(* Field locations *)

\* the location the last realization was of
Realized == locations[Deref(realization).loc]

\* the constructors a rule builds on a location, as it hands them to Add
ErrFnsOn(fn) ==
    << forbidden(fn), required(fn), ErrFn_withBadValue(forbidden(fn), <<"false">>),
       ErrFn_withBadValue(required(fn), GoInt(0)) >>

\* C12: Path null-propagation.  Every location derived from an absent root by
\* child, index and key calls is an absent (nil) PathFn; forbidden, required and
\* withBadValue built on it are absent; Add on an accumulator that produces field
\* errors records the label and no structured error for them; and realizing the
\* location where the code may yields no path.
C12_PathNullPropagation ==
    /\ \A i \in 1..Len(locations) :
           ~locations[i].present =>
               /\ locations[i].fn = Nil
               /\ \A j \in 1..Len(ErrFnsOn(locations[i].fn)) :
                      ErrFnsOn(locations[i].fn)[j] = Nil
               /\ Errs(Add(NewViolations(TRUE), "x", ErrFnsOn(locations[i].fn))) = <<>>
               /\ Data(Add(NewViolations(TRUE), "x", ErrFnsOn(locations[i].fn))) = <<"x">>
    /\ (realization # Nil /\ ~Realized.present) => Deref(realization).path = Nil

\* a location three calls away from an absent root, made with each of child,
\* index and key, has been realized
C12_Witness ==
    /\ realization # Nil
    /\ ~Realized.present
    /\ Len(Realized.made) = 3
    /\ { Realized.made[j].op : j \in 1..3 } = { "child", "index", "key" }

RECURSIVE Rendering(_, _)
\* a root's rendering followed by the rendering of each call, in call order
Rendering(root, made) ==
    IF Len(made) = 0 THEN root
    ELSE LET front == Rendering(root, SubSeq(made, 1, Len(made) - 1))
             last == made[Len(made)]
         IN  CASE last.op = "child" -> front \o "." \o last.arg
               [] last.op = "index" -> front \o "[" \o ToString(last.arg) \o "]"
               [] last.op = "key" -> front \o "[" \o last.arg \o "]"

\* the segments of a root rendering
RootLength(root) == IF root = "spec" THEN 1 ELSE 2

\* C13: For a present root, every location built by a chain of child, index and
\* key calls realizes to the root path followed by exactly the segments of those
\* calls, in call order; and this stays so for every location whatever has been
\* derived from it or realized since: what was realized last is still what its
\* location realizes to.
C13_PathComposition ==
    /\ \A i \in 1..Len(locations) :
           locations[i].present =>
               /\ locations[i].fn # Nil
               /\ CallPathFn(locations[i].fn) # Nil
               /\ Len(CallPathFn(locations[i].fn))
                      = RootLength(locations[i].root) + Len(locations[i].made)
               /\ PathString(CallPathFn(locations[i].fn))
                      = Rendering(locations[i].root, locations[i].made)
    /\ (realization # Nil /\ Realized.present) =>
           /\ Deref(realization).path = CallPathFn(Realized.fn)
           /\ PathString(Deref(realization).path) = Rendering(Realized.root, Realized.made)

\* containersFldPath.index(2).child("securityContext").child("runAsUser") has been
\* derived step by step and its parent realized after it was derived
C13_Witness ==
    /\ Len(locations) = 4
    /\ locations[4].present
    /\ PathString(CallPathFn(locations[4].fn)) = "spec.containers[2].securityContext.runAsUser"
    /\ locations[4].parent = 3
    /\ realization # Nil
    /\ Deref(realization).loc = 3
    /\ PathString(Deref(realization).path) = "spec.containers[2].securityContext"

-----------------------------------------------------------------------------
(* Violations accumulator *)

\* the accumulator in hand is of the type whose Add takes errFns...
TakesErrFns == accumulator # Nil /\ "withFieldErrors" \in DOMAIN accumulator

\* the accumulator in hand is of the type whose Add takes the path and the options
TakesOptions == accumulator # Nil /\ "errFn" \in DOMAIN accumulator

RECURSIVE ResultsOf(_)
\* the non-nil results of the non-nil constructors of a list, in argument order
ResultsOf(errFns) ==
    IF Len(errFns) = 0 THEN <<>>
    ELSE (IF Head(errFns) = Nil THEN <<>>
          ELSE IF CallErrFn(Head(errFns)) = Nil THEN <<>>
          ELSE << Deref(CallErrFn(Head(errFns))) >>)
         \o ResultsOf(Tail(errFns))

RECURSIVE ResultsOfCalls(_)
\* the results of the calls' constructors, in call order
ResultsOfCalls(made) ==
    IF Len(made) = 0 THEN <<>>
    ELSE ResultsOf(Head(made).errFns) \o ResultsOfCalls(Tail(made))

\* C14: Accumulator ordering.  After any sequence of Add calls on an accumulator
\* that produces field errors, Data() is the labels in call order, duplicates
\* kept, and Errs() is the non-nil results of the constructors in call order and,
\* within a call, in argument order; a nil constructor and a constructor that
\* returns nil contribute no entry.
C14_AccumulatorOrdering ==
    (TakesErrFns /\ accumulator.withFieldErrors) =>
        /\ Data(accumulator) = [i \in 1..Len(addCalls) |-> addCalls[i].data]
        /\ Errs(accumulator) = ResultsOfCalls(addCalls)
        /\ \A i \in 1..Len(Errs(accumulator)) : Errs(accumulator)[i] # Nil

\* add("x", e1), add("y"), add("x", e2, nil, e1): a label twice, a call without
\* constructors and a nil constructor; the three results are there in order
C14_Witness ==
    /\ TakesErrFns
    /\ accumulator.withFieldErrors
    /\ Len(addCalls) = 3
    /\ Data(accumulator) = <<"x", "y", "x">>
    /\ Len(addCalls[1].errFns) = 1 /\ addCalls[1].errFns[1] # Nil
    /\ addCalls[2].errFns = <<>>
    /\ Len(addCalls[3].errFns) = 3
    /\ [i \in 1..3 |-> Errs(accumulator)[i].Type] = <<"Forbidden", "Required", "Forbidden">>
    /\ Len(Errs(accumulator)) = 3

\* C15: On an accumulator with field-error production disabled (withFieldErrors
\* false; for the Add that takes options, options without the error list), every
\* Add appends its label, so that Len() is the number of calls and Empty() is
\* false after the first, no error constructor is invoked and Errs() stays empty.
C15_DisabledAccumulator ==
    /\ (TakesErrFns /\ ~accumulator.withFieldErrors) =>
           /\ VLen(accumulator) = Len(addCalls)
           /\ Empty(accumulator) <=> Len(addCalls) = 0
           /\ Data(accumulator) = [i \in 1..Len(addCalls) |-> addCalls[i].data]
           /\ invoked = <<>>
           /\ Errs(accumulator) = <<>>
    /\ (TakesOptions /\ \A i \in 1..Len(addCalls) : ~addCalls[i].opts.withFieldErrors) =>
           /\ Len(accumulator.data) = Len(addCalls)
           /\ accumulator.data = [i \in 1..Len(addCalls) |-> addCalls[i].data]
           /\ invoked = <<>>
           /\ accumulator.errs = <<>>

\* three Add calls on a disabled accumulator, the last with three constructors
C15_Witness ==
    /\ TakesErrFns
    /\ ~accumulator.withFieldErrors
    /\ Len(addCalls) = 3
    /\ Len(addCalls[1].errFns) = 2
    /\ Len(addCalls[3].errFns) = 3
    /\ VLen(accumulator) = 3

-----------------------------------------------------------------------------
(* Container visitor *)

TheOptions == withOptions(Deref(workload).opts)
ThePodSpec == Deref(workload).pod.Spec
TheVisits == Deref(visits)

\* the options with the field-error option the other way round
OtherOptions == [withFieldErrors |-> ~TheOptions.withFieldErrors]

\* C16: Visitor order.  For a pod spec with a init, b regular and c ephemeral
\* containers the visitor is called a+b+c times, once per container: the init
\* containers in list order, then the regular ones, then the ephemeral ones; and
\* the containers visited are the same with and without the field-error option.
C16_VisitorOrder ==
    visits # Nil =>
        LET a == Len(ThePodSpec.InitContainers)
            b == Len(ThePodSpec.Containers)
            c == Len(ThePodSpec.EphemeralContainers)
        IN  /\ Len(TheVisits) = a + b + c
            /\ \A i \in 1..a : TheVisits[i].container = ThePodSpec.InitContainers[i]
            /\ \A i \in 1..b : TheVisits[a + i].container = ThePodSpec.Containers[i]
            /\ \A i \in 1..c :
                   TheVisits[a + b + i].container = ThePodSpec.EphemeralContainers[i]
            /\ [k \in 1..Len(TheVisits) |-> TheVisits[k].container]
                   = [k \in 1..Len(visitContainers(pkg, ThePodSpec, OtherOptions)) |->
                         visitContainers(pkg, ThePodSpec, OtherOptions)[k].container]

\* two containers of each kind have been visited
C16_Witness ==
    /\ visits # Nil
    /\ Len(ThePodSpec.InitContainers) = 2
    /\ Len(ThePodSpec.Containers) = 2
    /\ Len(ThePodSpec.EphemeralContainers) = 2
    /\ [k \in 1..Len(TheVisits) |-> TheVisits[k].container.Name]
           = << "i1", "i2", "a", "b", "e1", "e2" >>

\* the rendering of the location of the container at index i (from 0) of a list
ContainerLocation(list, i) == "spec." \o list \o "[" \o ToString(i) \o "]"

\* C17: With field errors enabled, the location passed for the i-th container of
\* a list realizes to spec.initContainers[i], spec.containers[i] or
\* spec.ephemeralContainers[i], according to the list it came from; with field
\* errors disabled, the location passed is absent (nil) for every container.
C17_VisitorLocations ==
    visits # Nil =>
        LET a == Len(ThePodSpec.InitContainers)
            b == Len(ThePodSpec.Containers)
        IN  \A k \in 1..Len(TheVisits) :
                IF TheOptions.withFieldErrors
                THEN /\ TheVisits[k].pathFn # Nil
                     /\ PathString(CallPathFn(TheVisits[k].pathFn))
                            = IF k <= a THEN ContainerLocation("initContainers", k - 1)
                              ELSE IF k <= a + b
                              THEN ContainerLocation("containers", k - a - 1)
                              ELSE ContainerLocation("ephemeralContainers", k - a - b - 1)
                ELSE TheVisits[k].pathFn = Nil

\* with field errors enabled, the second ephemeral container of a pod with two
\* init and two regular containers was passed spec.ephemeralContainers[1]
C17_Witness ==
    /\ visits # Nil
    /\ TheOptions.withFieldErrors
    /\ Len(TheVisits) = 6
    /\ Len(ThePodSpec.InitContainers) = 2
    /\ Len(ThePodSpec.Containers) = 2
    /\ PathString(CallPathFn(TheVisits[2].pathFn)) = "spec.initContainers[1]"
    /\ PathString(CallPathFn(TheVisits[3].pathFn)) = "spec.containers[0]"
    /\ PathString(CallPathFn(TheVisits[6].pathFn)) = "spec.ephemeralContainers[1]"

-----------------------------------------------------------------------------
(* runAsNonRoot *)

TheVerdict == Deref(verdict)

\* what a securityContext pointer says about runAsNonRoot
SettingOf(sc) ==
    IF sc = Nil THEN "unset"
    ELSE IF Deref(sc).RunAsNonRoot = Nil THEN "unset"
    ELSE IF Deref(Deref(sc).RunAsNonRoot) THEN "true" ELSE "false"

PodValue == SettingOf(ThePodSpec.SecurityContext)

\* the containers of the workload in visitor order
AllContainers ==
    ThePodSpec.InitContainers \o ThePodSpec.Containers \o ThePodSpec.EphemeralContainers

RECURSIVE QuotedList(_)
\* "a", "b", "c"
QuotedList(names) ==
    IF Len(names) = 0 THEN ""
    ELSE IF Len(names) = 1 THEN "\"" \o names[1] \o "\""
    ELSE "\"" \o names[1] \o "\", " \o QuotedList(Tail(names))

\* container "a"   or   containers "a", "b"
ContainersPhrase(names) ==
    (IF Len(names) = 1 THEN "container " ELSE "containers ") \o QuotedList(names)

\* the detail that names the pod (if podToo) and the containers as setting false
ExplicitDetail(podToo, names) ==
    (IF podToo /\ Len(names) > 0 THEN "pod and " \o ContainersPhrase(names)
     ELSE IF podToo THEN "pod"
     ELSE ContainersPhrase(names))
    \o " must not set securityContext.runAsNonRoot=false"

\* the detail that names the containers as not setting true
ImplicitDetail(names) ==
    "pod or " \o ContainersPhrase(names) \o " must set securityContext.runAsNonRoot=true"

\* the error expected for a container of spec.containers that sets false
ForbiddenFalseAt(k) ==
    [Type |-> "Forbidden",
     Field |-> "spec.containers[" \o ToString(k) \o "].securityContext.runAsNonRoot",
     BadValue |-> Ptr(<<"false">>)]

\* the regular container at index k (from 0) is the only container that sets false
OnlyFalseContainer(k) ==
    /\ SettingOf(ThePodSpec.Containers[k + 1].SecurityContext) = "false"
    /\ \A j \in 1..Len(AllContainers) :
           AllContainers[j].Name # ThePodSpec.Containers[k + 1].Name
               => SettingOf(AllContainers[j].SecurityContext) # "false"

\* C18: With field errors enabled, pod-level runAsNonRoot true and the regular
\* container at index k the only container that sets runAsNonRoot=false, the
\* result is not allowed, names that container as the only offending subject, and
\* its ErrList is exactly one Forbidden error at
\* spec.containers[k].securityContext.runAsNonRoot with bad value ["false"].
C18_ExplicitFalseContainer ==
    (verdict # Nil /\ TheOptions.withFieldErrors /\ PodValue = "true") =>
        \A k \in 0..(Len(ThePodSpec.Containers) - 1) :
            OnlyFalseContainer(k) =>
                /\ ~TheVerdict.Allowed
                /\ TheVerdict.ForbiddenDetail
                       = ExplicitDetail(FALSE, << ThePodSpec.Containers[k + 1].Name >>)
                /\ TheVerdict.ErrList = << ForbiddenFalseAt(k) >>

\* What does hold in the case of C18: the result is not allowed and names the
\* container as the only offending subject; the ErrList is empty.
C18_ExplicitFalseContainer_NoErrors ==
    (verdict # Nil /\ TheOptions.withFieldErrors /\ PodValue = "true") =>
        \A k \in 0..(Len(ThePodSpec.Containers) - 1) :
            OnlyFalseContainer(k) =>
                /\ ~TheVerdict.Allowed
                /\ TheVerdict.ForbiddenDetail
                       = ExplicitDetail(FALSE, << ThePodSpec.Containers[k + 1].Name >>)
                /\ TheVerdict.ErrList = <<>>

\* neither the pod nor any container says anything about runAsNonRoot
NothingSet ==
    /\ PodValue = "unset"
    /\ \A j \in 1..Len(AllContainers) : SettingOf(AllContainers[j].SecurityContext) = "unset"

\* what the rule returns for the workload once the pod sets runAsNonRoot=false
WhenPodSetsFalse ==
    runAsNonRoot_1_0(pkg, Deref(workload).pod.ObjectMeta,
                     [ThePodSpec EXCEPT !.SecurityContext = PodSetting("false")],
                     TheOptions)

\* what the rule returns for the workload once its first regular container sets
\* runAsNonRoot=false
WhenContainerSetsFalse ==
    runAsNonRoot_1_0(pkg, Deref(workload).pod.ObjectMeta,
                     [ThePodSpec EXCEPT
                         !.Containers[1] = ContainerSetting(@.Name, "false")],
                     TheOptions)

AllNames == [j \in 1..Len(AllContainers) |-> AllContainers[j].Name]

\* C19: When neither the pod nor any container sets runAsNonRoot, the result is
\* not allowed, every container is listed as implicitly bad, in visitor order,
\* and the ForbiddenReason differs from the ForbiddenReason returned when the pod
\* or a container explicitly sets runAsNonRoot=false.
C19_NothingSet ==
    (verdict # Nil /\ NothingSet) =>
        /\ ~TheVerdict.Allowed
        /\ TheVerdict.ForbiddenDetail = ImplicitDetail(AllNames)
        /\ TheVerdict.ForbiddenReason # WhenPodSetsFalse.ForbiddenReason
        /\ TheVerdict.ForbiddenReason # WhenContainerSetsFalse.ForbiddenReason

\* C19 as amended: when neither the pod nor any container sets runAsNonRoot, the
\* result is not allowed and every container is listed as implicitly bad, in
\* visitor order; the ForbiddenReason is "runAsNonRoot != true", the same as when
\* the pod or a container explicitly sets runAsNonRoot=false, and it is the
\* ForbiddenDetail that tells "must set true" from "must not set false".
C19_NothingSet_SameReason ==
    (verdict # Nil /\ NothingSet) =>
        /\ ~TheVerdict.Allowed
        /\ TheVerdict.ForbiddenDetail = ImplicitDetail(AllNames)
        /\ TheVerdict.ForbiddenReason = "runAsNonRoot != true"
        /\ TheVerdict.ForbiddenReason = WhenPodSetsFalse.ForbiddenReason
        /\ TheVerdict.ForbiddenReason = WhenContainerSetsFalse.ForbiddenReason
        /\ ~WhenPodSetsFalse.Allowed
        /\ ~WhenContainerSetsFalse.Allowed
        /\ WhenPodSetsFalse.ForbiddenDetail = ExplicitDetail(TRUE, <<>>)
        /\ WhenContainerSetsFalse.ForbiddenDetail
               = ExplicitDetail(FALSE, << ThePodSpec.Containers[1].Name >>)
        /\ TheVerdict.ForbiddenDetail # WhenPodSetsFalse.ForbiddenDetail
        /\ TheVerdict.ForbiddenDetail # WhenContainerSetsFalse.ForbiddenDetail

\* the rule has returned for a pod with two init, two regular and two ephemeral
\* containers that sets runAsNonRoot nowhere
C19_Witness ==
    /\ verdict # Nil
    /\ NothingSet
    /\ AllNames = << "i1", "i2", "a", "b", "e1", "e2" >>
    /\ ~TheVerdict.Allowed

RECURSIVE Picked(_, _, _)
\* the names at the positions of a set, in order of position, from position i on
Picked(names, positions, i) ==
    IF i > Len(names) THEN <<>>
    ELSE (IF i \in positions THEN << names[i] >> ELSE <<>>)
         \o Picked(names, positions, i + 1)

\* the lists of container names a detail of the rule can name
NameLists == { Picked(AllNames, positions, 1) : positions \in SUBSET (1..Len(AllNames)) }

\* the details that name exactly the containers of a list, besides the pod
DetailsNaming(names) ==
    IF Len(names) = 0 THEN { ExplicitDetail(TRUE, names) }
    ELSE { ExplicitDetail(TRUE, names), ExplicitDetail(FALSE, names), ImplicitDetail(names) }

\* the containers the result lists as offending
Listed ==
    IF TheVerdict.Allowed THEN {}
    ELSE Elems(CHOOSE names \in NameLists :
                   TheVerdict.ForbiddenDetail \in DetailsNaming(names))

\* the pod or some container sets runAsNonRoot=false
SomeFalse ==
    \/ PodValue = "false"
    \/ \E j \in 1..Len(AllContainers) : SettingOf(AllContainers[j].SecurityContext) = "false"

\* C20: runAsNonRoot inheritance, per container.  A container that sets
\* runAsNonRoot=true is never listed as offending, whatever the pod-level value;
\* one that sets runAsNonRoot=false is always listed, also when the pod-level
\* value is true; one that sets nothing is listed exactly when the pod-level
\* value is not true, whatever the other containers set.
C20_PerContainerInheritance ==
    verdict # Nil =>
        \A j \in 1..Len(AllContainers) :
            LET setting == SettingOf(AllContainers[j].SecurityContext)
                listed == AllContainers[j].Name \in Listed
            IN  /\ setting = "true" => ~listed
                /\ setting = "false" => listed
                /\ setting = "unset" => (listed <=> PodValue # "true")

\* What does hold in the case of C20: a container that sets nothing is listed
\* exactly when the pod-level value is not true and neither the pod nor any
\* container sets runAsNonRoot=false.
C20_PerContainerInheritance_Unmasked ==
    verdict # Nil =>
        \A j \in 1..Len(AllContainers) :
            LET setting == SettingOf(AllContainers[j].SecurityContext)
                listed == AllContainers[j].Name \in Listed
            IN  /\ setting = "true" => ~listed
                /\ setting = "false" => listed
                /\ setting = "unset" => (listed <=> (PodValue # "true" /\ ~SomeFalse))

-----------------------------------------------------------------------------
(* Rule implementations called on their own *)

TheCall == Deref(verdict)
ThePod == Deref(workload).pod

\* the rule implementation checkPod has returned a result for the workload
Called(checkPod) == verdict # Nil /\ TheCall.checkPod = checkPod

\* kind and location of each error of a list, in order
KindsAndFields(errList) ==
    [k \in 1..Len(errList) |-> << errList[k].Type, errList[k].Field >>]

\* the indexes (from 0) of the volumes none of whose sources is one of
\* configMap, csi, downwardAPI, emptyDir, ephemeral, persistentVolumeClaim,
\* projected, secret
DisallowedVolumes(volumes) ==
    SelectSeq([k \in 1..Len(volumes) |-> k - 1],
              LAMBDA i : \A s \in volumes[i + 1].Sources :
                             s \notin { "configMap", "csi", "downwardAPI", "emptyDir",
                                        "ephemeral", "persistentVolumeClaim",
                                        "projected", "secret" })

\* the type of a volume that sets at most one source
TypeOfVolume(volume) ==
    IF volume.Sources = {} THEN "unknown" ELSE CHOOSE s \in volume.Sources : TRUE

\* C21: restrictedVolumes_1_0 allows a pod exactly when none of its volumes is of
\* a disallowed type.  When exactly one volume, at index i, is disallowed (as the
\* volume at index 1 among 3), the detail names that volume alone and its type;
\* with field errors enabled ErrList is one Forbidden error at spec.volumes[i]
\* for each disallowed index i, in index order.
C21_RestrictedVolumes ==
    Called("restrictedVolumes_1_0") =>
        LET volumes == ThePod.Spec.Volumes
            bad == DisallowedVolumes(volumes)
        IN  /\ TheCall.result.Allowed = (Len(bad) = 0)
            /\ Len(bad) = 1 =>
                   /\ TheCall.result.ForbiddenReason = "restricted volume types"
                   /\ TheCall.result.ForbiddenDetail =
                          "volume \"" \o volumes[bad[1] + 1].Name
                          \o "\" uses restricted volume type \""
                          \o TypeOfVolume(volumes[bad[1] + 1]) \o "\""
            /\ TheOptions.withFieldErrors =>
                   KindsAndFields(TheCall.result.ErrList) =
                       [k \in 1..Len(bad) |->
                           << "Forbidden", "spec.volumes[" \o ToString(bad[k]) \o "]" >>]

\* of three volumes the one at index 1 is an nfs volume and the others are
\* allowed: one Forbidden error at spec.volumes[1]
C21_Witness ==
    /\ Called("restrictedVolumes_1_0")
    /\ TheOptions.withFieldErrors
    /\ Len(ThePod.Spec.Volumes) = 3
    /\ DisallowedVolumes(ThePod.Spec.Volumes) = << 1 >>
    /\ ThePod.Spec.Volumes[2].Sources = {"nfs"}
    /\ ~TheCall.result.Allowed
    /\ TheCall.result.ForbiddenDetail = "volume \"v1\" uses restricted volume type \"nfs\""
    /\ KindsAndFields(TheCall.result.ErrList) = << << "Forbidden", "spec.volumes[1]" >> >>

\* the sysctl names the documentation of the check allows from 1.0 and from 1.27
SafeSysctls(checkPod) ==
    { "kernel.shm_rmid_forced", "net.ipv4.ip_local_port_range", "net.ipv4.tcp_syncookies",
      "net.ipv4.ping_group_range", "net.ipv4.ip_unprivileged_port_start" }
    \cup IF checkPod = "sysctls_1_27" THEN { "net.ipv4.ip_local_reserved_ports" } ELSE {}

TheSysctls ==
    IF ThePod.Spec.SecurityContext = Nil THEN <<>>
    ELSE Deref(ThePod.Spec.SecurityContext).Sysctls

\* the indexes (from 0) of the sysctls whose name is not in the set
OffendingSysctls(safe) ==
    SelectSeq([k \in 1..Len(TheSysctls) |-> k - 1],
              LAMBDA i : TheSysctls[i + 1].Name \notin safe)

\* C22: sysctls_1_0 and sysctls_1_27 allow a pod exactly when every name in
\* spec.securityContext.sysctls is in the version's allowed set; otherwise the
\* detail lists the offending names in source order; with field errors enabled
\* ErrList has one Forbidden error per offending sysctl, at
\* spec.securityContext.sysctls[i].name with bad value [name], and it is empty
\* with field errors disabled; 1.0 rejects net.ipv4.ip_local_reserved_ports, 1.27
\* accepts it, and 1.27 accepts every pod that 1.0 accepts.
C22_Sysctls ==
    \A checkPod \in { "sysctls_1_0", "sysctls_1_27" } :
        Called(checkPod) =>
            LET bad == OffendingSysctls(SafeSysctls(checkPod))
                r == TheCall.result
            IN  /\ r.Allowed = (Len(bad) = 0)
                /\ Len(bad) > 0 =>
                       r.ForbiddenDetail =
                           Join([k \in 1..Len(bad) |-> TheSysctls[bad[k] + 1].Name], ", ")
                /\ r.ErrList =
                       IF TheOptions.withFieldErrors
                       THEN [k \in 1..Len(bad) |->
                                [Type |-> "Forbidden",
                                 Field |-> "spec.securityContext.sysctls["
                                               \o ToString(bad[k]) \o "].name",
                                 BadValue |-> Ptr(<< TheSysctls[bad[k] + 1].Name >>)]]
                       ELSE <<>>
                /\ (\E k \in 1..Len(TheSysctls) :
                        TheSysctls[k].Name = "net.ipv4.ip_local_reserved_ports")
                       => (r.Allowed => checkPod = "sysctls_1_27")
                /\ (checkPod = "sysctls_1_0" /\ r.Allowed)
                       => sysctls_1_27(pkg, ThePod.ObjectMeta, ThePod.Spec,
                                       TheOptions).Allowed

\* sysctls_1_0 has rejected net.ipv4.ip_local_reserved_ports, the second of two
\* sysctls, with one error at spec.securityContext.sysctls[1].name
C22_Witness ==
    /\ Called("sysctls_1_0")
    /\ TheOptions.withFieldErrors
    /\ Len(TheSysctls) = 2
    /\ TheSysctls[1].Name = "net.ipv4.tcp_syncookies"
    /\ TheSysctls[2].Name = "net.ipv4.ip_local_reserved_ports"
    /\ ~TheCall.result.Allowed
    /\ TheCall.result.ForbiddenDetail = "net.ipv4.ip_local_reserved_ports"
    /\ Len(TheCall.result.ErrList) = 1
    /\ TheCall.result.ErrList[1].Field = "spec.securityContext.sysctls[1].name"
    /\ sysctls_1_27(pkg, ThePod.ObjectMeta, ThePod.Spec, TheOptions).Allowed

\* a rule implementation has returned a CheckResult for the workload
Answered == verdict # Nil /\ ~IsPanic(TheCall.result)

\* the error has one of the two kinds and a realized location
KindAndLocation(err) ==
    /\ err.Type \in { "Forbidden", "Required" }
    /\ err.Field \notin { "", "<nil>" }

\* the value held in the interface{} is an int: the one int a rule stores is 0
IsGoInt(badValue) == ToString(badValue) = ToString(GoInt(0))

\* the value held in the interface{} is a []string
IsStringList(badValue) == ~IsGoInt(badValue) /\ badValue \in Seq(STRING)

\* C23: Every structured error in the ErrList of a rule has kind Forbidden or
\* Required and a realized, non-empty field path, and the offending value it
\* carries, if any, is a list of strings, even for a scalar field (a runAsUser=0
\* violation carries ["0"]).
C23_StructuredErrors ==
    Answered =>
        \A k \in 1..Len(TheCall.result.ErrList) :
            LET err == TheCall.result.ErrList[k]
            IN  /\ KindAndLocation(err)
                /\ err.BadValue # Nil => IsStringList(Deref(err.BadValue))

\* Every structured error has one of the two kinds and a realized location, and
\* carries a list of strings if anything, but for the errors of runAsUser_1_23,
\* which carry the integer 0.
C23_StructuredErrors_IntegerZero ==
    Answered =>
        \A k \in 1..Len(TheCall.result.ErrList) :
            LET err == TheCall.result.ErrList[k]
            IN  /\ KindAndLocation(err)
                /\ IF TheCall.checkPod = "runAsUser_1_23"
                   THEN err.BadValue # Nil /\ IsGoInt(Deref(err.BadValue))
                   ELSE err.BadValue # Nil => IsStringList(Deref(err.BadValue))

-----------------------------------------------------------------------------
(* capabilities_restricted *)

IsWindows == ThePod.Spec.OS # Nil /\ Deref(ThePod.Spec.OS).Name = "windows"

\* every container of the pod
ContainersOf(podSpec) ==
    podSpec.InitContainers \o podSpec.Containers \o podSpec.EphemeralContainers

\* the container drops ALL and adds nothing but NET_BIND_SERVICE
DropsAllAddsNone(container) ==
    /\ container.SecurityContext # Nil
    /\ Deref(container.SecurityContext).Capabilities # Nil
    /\ \E k \in 1..Len(Deref(Deref(container.SecurityContext).Capabilities).Drop) :
           Deref(Deref(container.SecurityContext).Capabilities).Drop[k] = "ALL"
    /\ \A k \in 1..Len(Deref(Deref(container.SecurityContext).Capabilities).Add) :
           Deref(Deref(container.SecurityContext).Capabilities).Add[k] = "NET_BIND_SERVICE"

\* C24: Windows exemption.  capabilitiesRestricted_1_25 returns allowed=true with
\* no detail and no errors for every pod whose spec.os.name is windows, whatever
\* its containers' capabilities; for every other pod (os unset or not windows) it
\* returns exactly what capabilitiesRestricted_1_22 returns on the same inputs;
\* capabilitiesRestricted_1_22 applies no such exemption: it allows a pod, windows
\* or not, exactly when every container drops ALL and adds nothing but
\* NET_BIND_SERVICE.
C24_WindowsExemption ==
    /\ Called("capabilitiesRestricted_1_25") =>
           IF IsWindows
           THEN TheCall.result = [Allowed |-> TRUE, ForbiddenReason |-> "",
                                  ForbiddenDetail |-> "", ErrList |-> <<>>]
           ELSE TheCall.result =
                    capabilitiesRestricted_1_22(pkg, ThePod.ObjectMeta, ThePod.Spec,
                                                TheOptions)
    /\ Called("capabilitiesRestricted_1_22") =>
           TheCall.result.Allowed =
               \A k \in 1..Len(ContainersOf(ThePod.Spec)) :
                   DropsAllAddsNone(ContainersOf(ThePod.Spec)[k])

\* capabilitiesRestricted_1_25 has allowed a windows pod with a container that
\* adds SYS_ADMIN, which capabilitiesRestricted_1_22 rejects
C24_Witness ==
    /\ Called("capabilitiesRestricted_1_25")
    /\ IsWindows
    /\ \E k \in 1..Len(ThePod.Spec.Containers) :
           /\ ThePod.Spec.Containers[k].SecurityContext # Nil
           /\ Deref(ThePod.Spec.Containers[k].SecurityContext).Capabilities
                  = Ptr([Add |-> <<"SYS_ADMIN">>, Drop |-> <<"ALL">>])
    /\ TheCall.result.Allowed
    /\ ~capabilitiesRestricted_1_22(pkg, ThePod.ObjectMeta, ThePod.Spec,
                                    TheOptions).Allowed

\* capabilitiesRestricted_1_25 has rejected a pod whose os is linux
C24_Witness_NotWindows ==
    /\ Called("capabilitiesRestricted_1_25")
    /\ ThePod.Spec.OS = Ptr([Name |-> "linux"])
    /\ ~TheCall.result.Allowed

-----------------------------------------------------------------------------
(* Rule descriptors *)

\* the MinimumVersions of the descriptor are strictly ascending
StrictlyAscending(check) ==
    \A j \in 1..(Len(check.Versions) - 1) :
        Older(check.Versions[j].MinimumVersion, check.Versions[j + 1].MinimumVersion)

\* C25: Every rule descriptor in the catalog has a non-empty implementation list
\* whose MinimumVersions are strictly ascending, and has an implementation whose
\* MinimumVersion is 1.0, the lowest version supported, so that it resolves at
\* every supported target version.
C25_DescriptorVersions ==
    \A i \in 1..Len(registry) :
        /\ Len(registry[i].Versions) >= 1
        /\ StrictlyAscending(registry[i])
        /\ \E j \in 1..Len(registry[i].Versions) :
               registry[i].Versions[j].MinimumVersion = <<1, 0>>
        /\ \A t \in TargetVersions : Resolve(registry[i], t) # 0

\* Every rule descriptor in the catalog has a non-empty implementation list whose
\* MinimumVersions are strictly ascending; the first one is 1.0 but for runAsUser
\* (1.23) and capabilities_restricted (1.22); a descriptor resolves at the target
\* versions that are not older than its first MinimumVersion, and at no other.
C25_DescriptorVersions_FromFirst ==
    \A i \in 1..Len(registry) :
        /\ Len(registry[i].Versions) >= 1
        /\ StrictlyAscending(registry[i])
        /\ registry[i].Versions[1].MinimumVersion =
               IF registry[i].ID = "runAsUser" THEN <<1, 23>>
               ELSE IF registry[i].ID = "capabilities_restricted" THEN <<1, 22>>
               ELSE <<1, 0>>
        /\ \A t \in TargetVersions :
               (Resolve(registry[i], t) # 0)
                   <=> ~Older(t, registry[i].Versions[1].MinimumVersion)

\* the catalog is complete: it holds runAsUser, capabilities_restricted and the
\* two implementations of seccompProfile_baseline, and runAsUser does not
\* resolve at 1.22
C25_Witness ==
    /\ phase = "idle"
    /\ \E i \in Entry("runAsUser") : Resolve(registry[i], <<1, 22>>) = 0
    /\ \E i \in Entry("capabilities_restricted") : Len(registry[i].Versions) = 2
    /\ \E i \in Entry("seccompProfile_baseline") :
           /\ Len(registry[i].Versions) = 2
           /\ Resolve(registry[i], <<1, MaxMinor>>) = 2

-----------------------------------------------------------------------------
(* Absent settings *)

\* the rules that do not require a setting to be present
OptionalSettingRules ==
    { "runAsUser_1_23", "seLinuxOptions_1_0", "seLinuxOptions_1_0_fields",
      "sysctls_1_0", "sysctls_1_27", "hostPorts_1_0",
      "seccompProfileBaseline_1_0", "seccompProfileBaseline_1_19" }

\* the container leaves unset what the rule reads of a container: it has no
\* securityContext, or one without the nested setting, no ports, no annotation
ContainerUnsetFor(checkPod, container) ==
    CASE checkPod = "runAsUser_1_23" ->
             \/ container.SecurityContext = Nil
             \/ Deref(container.SecurityContext).RunAsUser = Nil
      [] checkPod \in { "seLinuxOptions_1_0", "seLinuxOptions_1_0_fields" } ->
             \/ container.SecurityContext = Nil
             \/ Deref(container.SecurityContext).SELinuxOptions = Nil
      [] checkPod = "seccompProfileBaseline_1_19" ->
             \/ container.SecurityContext = Nil
             \/ Deref(container.SecurityContext).SeccompProfile = Nil
      [] checkPod = "seccompProfileBaseline_1_0" ->
             (annotationKeyContainerPrefix \o container.Name)
                 \notin DOMAIN ThePod.ObjectMeta.Annotations
      [] checkPod = "hostPorts_1_0" -> Len(container.Ports) = 0
      [] checkPod \in { "sysctls_1_0", "sysctls_1_27" } -> TRUE

\* the pod leaves unset what the rule reads at pod level
PodUnsetFor(checkPod, podSpec) ==
    CASE checkPod = "runAsUser_1_23" ->
             \/ podSpec.SecurityContext = Nil
             \/ Deref(podSpec.SecurityContext).RunAsUser = Nil
      [] checkPod \in { "seLinuxOptions_1_0", "seLinuxOptions_1_0_fields" } ->
             \/ podSpec.SecurityContext = Nil
             \/ Deref(podSpec.SecurityContext).SELinuxOptions = Nil
      [] checkPod = "seccompProfileBaseline_1_19" ->
             \/ podSpec.SecurityContext = Nil
             \/ Deref(podSpec.SecurityContext).SeccompProfile = Nil
      [] checkPod = "seccompProfileBaseline_1_0" ->
             annotationKeyPod \notin DOMAIN ThePod.ObjectMeta.Annotations
      [] checkPod = "hostPorts_1_0" -> TRUE
      [] checkPod \in { "sysctls_1_0", "sysctls_1_27" } ->
             \/ podSpec.SecurityContext = Nil
             \/ Len(Deref(podSpec.SecurityContext).Sysctls) = 0

\* the pod spec without what it leaves unset for the rule: without the containers
\* that leave it unset and, if the pod does, without the pod-level securityContext
SetFor(checkPod, podSpec) ==
    [podSpec EXCEPT
        !.SecurityContext = IF PodUnsetFor(checkPod, podSpec) THEN Nil ELSE @,
        !.InitContainers = SelectSeq(@, LAMBDA c : ~ContainerUnsetFor(checkPod, c)),
        !.Containers = SelectSeq(@, LAMBDA c : ~ContainerUnsetFor(checkPod, c)),
        !.EphemeralContainers = SelectSeq(@, LAMBDA c : ~ContainerUnsetFor(checkPod, c))]

\* what a result decides and whom it names
Decision(r) == << r.Allowed, r.ForbiddenReason, r.ForbiddenDetail >>

\* C26: Absent settings are 'not set', not a violation.  Each of runAsUser,
\* seLinuxOptions, sysctls, hostPorts and seccompProfile_baseline 1.0 and 1.19
\* allows a pod in which neither the pod nor a container sets what the rule reads
\* (no securityContext or none of the nested settings, no annotations, no ports);
\* and a pod or a container that leaves it unset is never among the offending
\* subjects: the rule decides, and names its subjects, as it does for the pod
\* without them.
C26_AbsentSettings ==
    \A checkPod \in OptionalSettingRules :
        (Called(checkPod) /\ Answered) =>
            /\ ( /\ PodUnsetFor(checkPod, ThePod.Spec)
                 /\ \A k \in 1..Len(ContainersOf(ThePod.Spec)) :
                        ContainerUnsetFor(checkPod, ContainersOf(ThePod.Spec)[k]) )
                   => TheCall.result = [Allowed |-> TRUE, ForbiddenReason |-> "",
                                        ForbiddenDetail |-> "", ErrList |-> <<>>]
            /\ Decision(TheCall.result) =
                   Decision(CallCheckPod(checkPod, pkg, ThePod.ObjectMeta,
                                         SetFor(checkPod, ThePod.Spec),
                                         Deref(workload).opts))

\* runAsUser_1_23 has allowed a pod with an empty pod-level securityContext, an
\* init container without a securityContext and a container with an empty one
C26_Witness ==
    /\ Called("runAsUser_1_23")
    /\ ThePod.Spec.SecurityContext = EmptyPodSecurityContext
    /\ Len(ThePod.Spec.InitContainers) = 1
    /\ ThePod.Spec.InitContainers[1].SecurityContext = Nil
    /\ Len(ThePod.Spec.Containers) = 1
    /\ ThePod.Spec.Containers[1].SecurityContext # Nil
    /\ Deref(ThePod.Spec.Containers[1].SecurityContext).RunAsUser = Nil
    /\ TheCall.result.Allowed

\* seLinuxOptions_1_0 has rejected a pod that has a container with no
\* securityContext next to one with a forbidden SELinux type, naming the latter
C26_Witness_Mixed ==
    /\ Called("seLinuxOptions_1_0")
    /\ Len(ThePod.Spec.EphemeralContainers) = 1
    /\ ThePod.Spec.EphemeralContainers[1].SecurityContext = Nil
    /\ Len(ThePod.Spec.Containers) = 1
    /\ ~ContainerUnsetFor("seLinuxOptions_1_0", ThePod.Spec.Containers[1])
    /\ ~TheCall.result.Allowed

-----------------------------------------------------------------------------
(* The field-error option *)

\* the option list with the field-error option the other way round
OtherOptionList == IF TheOptions.withFieldErrors THEN <<>> ELSE << "WithErrList" >>

\* what the rule implementation called returns on the same pod with the
\* field-error option the other way round
OtherResult ==
    CallCheckPod(TheCall.checkPod, pkg, ThePod.ObjectMeta, ThePod.Spec, OtherOptionList)

\* the result has the same decision as with the option the other way round, no
\* structured error with the option disabled, and some if it rejects with the
\* option enabled
OptionOnlyAddsErrors ==
    /\ ~IsPanic(TheCall.result)
    /\ ~IsPanic(OtherResult)
    /\ Decision(TheCall.result) = Decision(OtherResult)
    /\ ~TheOptions.withFieldErrors => Len(TheCall.result.ErrList) = 0
    /\ (TheOptions.withFieldErrors /\ ~TheCall.result.Allowed)
           => Len(TheCall.result.ErrList) > 0

\* C27: The field-error option does not influence the decision: for every rule
\* implementation and every pod, the results computed with field errors enabled
\* and disabled have the same Allowed, ForbiddenReason and ForbiddenDetail; with
\* the option disabled ErrList is empty, and with the option enabled every result
\* with allowed=false has a non-empty ErrList.
C27_OptionIndependence ==
    verdict # Nil => OptionOnlyAddsErrors

\* The same, but for the two rules that fall short of it: runAsNonRoot_1_0
\* decides the same way with and without the option and never returns a
\* structured error; seccompProfileBaseline_1_19 panics with the option enabled
\* where it rejects a container with the option disabled and the pod sets no
\* seccompProfile, and otherwise does as the other rules do.
C27_OptionIndependence_ButTwoRules ==
    verdict # Nil =>
        CASE TheCall.checkPod = "runAsNonRoot_1_0" ->
                 /\ Decision(TheCall.result) = Decision(OtherResult)
                 /\ Len(TheCall.result.ErrList) = 0
          [] TheCall.checkPod = "seccompProfileBaseline_1_19" ->
                 IF IsPanic(TheCall.result) \/ IsPanic(OtherResult)
                 THEN /\ IsPanic(TheCall.result) = TheOptions.withFieldErrors
                      /\ IsPanic(OtherResult) = ~TheOptions.withFieldErrors
                 ELSE OptionOnlyAddsErrors
          [] OTHER -> OptionOnlyAddsErrors

-----------------------------------------------------------------------------
(* Tiers and overrides *)

\* evaluate has returned an aggregate that reports no violated rule
NothingReported == Returned /\ Len(TheResult.Outcomes) = 0

\* C28: Tier soundness under overrides.  Whenever the evaluation result says that
\* no rule is violated (the workload satisfies Restricted), no Baseline-tier
\* rule's selected implementation returned allowed=false for that workload.
C28_TierSoundness ==
    NothingReported =>
        \A a \in 1..Len(registry) :
            registry[a].Level = LevelBaseline => ~ViolatedIn(OwnRuns, a)

\* Whenever the evaluation result says that no rule is violated, every
\* Baseline-tier rule whose selected implementation returned allowed=false is
\* named as overridden by a selected implementation of a Restricted-tier rule that
\* allowed the workload.
C28_TierSoundness_ButOverridden ==
    NothingReported =>
        \A a \in 1..Len(registry) :
            (registry[a].Level = LevelBaseline /\ ViolatedIn(OwnRuns, a)) =>
                \E b \in 1..Len(registry) :
                    /\ registry[b].Level = LevelRestricted
                    /\ registry[a].ID \in OwnRuns[b].overrides
                    /\ OwnRuns[b].result.Allowed

\* the containers of the pod in the order they are visited, each with the
\* rendering of its location
Located(podSpec) ==
    [i \in 1..Len(podSpec.InitContainers) |->
        [container |-> podSpec.InitContainers[i],
         at |-> ContainerLocation("initContainers", i - 1)]]
    \o [i \in 1..Len(podSpec.Containers) |->
           [container |-> podSpec.Containers[i],
            at |-> ContainerLocation("containers", i - 1)]]
    \o [i \in 1..Len(podSpec.EphemeralContainers) |->
           [container |-> podSpec.EphemeralContainers[i],
            at |-> ContainerLocation("ephemeralContainers", i - 1)]]

\* the capabilities other than NET_BIND_SERVICE that the container adds
AddedBy(container) ==
    IF container.SecurityContext = Nil
       \/ Deref(container.SecurityContext).Capabilities = Nil
    THEN {}
    ELSE { c \in Elems(Deref(Deref(container.SecurityContext).Capabilities).Add) :
               c # "NET_BIND_SERVICE" }

\* the containers that add a capability other than NET_BIND_SERVICE
Adders == SelectSeq(Located(ThePod.Spec), LAMBDA v : AddedBy(v.container) # {})

\* capabilitiesRestricted_1_22 has returned its errors: as many about drop as
\* ErrList has over those about add, at the locations where a container's drop
\* is missing or short of ALL; and after them one Forbidden error at the add of
\* each container that adds, in visit order
ErrorsAboutDropThenAdd ==
    /\ Len(TheCall.result.ErrList) >= Len(Adders)
    /\ \A k \in 1..(Len(TheCall.result.ErrList) - Len(Adders)) :
           \E v \in Elems(Located(ThePod.Spec)) :
               TheCall.result.ErrList[k].Field
                   = v.at \o ".securityContext.capabilities.drop"
    /\ \A k \in 1..Len(Adders) :
           LET err == TheCall.result.ErrList[Len(TheCall.result.ErrList)
                                                 - Len(Adders) + k]
           IN  /\ err.Type = "Forbidden"
               /\ err.Field = Adders[k].at \o ".securityContext.capabilities.add"
               /\ err.BadValue # Nil

\* the bad value of the error about the add of the k-th container that adds
BadValueOfAdder(k) ==
    Deref(TheCall.result.ErrList[Len(TheCall.result.ErrList)
                                     - Len(Adders) + k].BadValue)

\* C29: In capabilitiesRestricted_1_22 with field errors enabled, the Forbidden
\* error recorded at a container's securityContext.capabilities.add carries as
\* bad value exactly the capabilities other than NET_BIND_SERVICE that this
\* container adds, and not capabilities added only by containers visited
\* earlier; the drop-related errors of all containers precede the add-related
\* errors in ErrList.
C29_AddedCapabilities ==
    (Called("capabilitiesRestricted_1_22") /\ TheOptions.withFieldErrors) =>
        /\ ErrorsAboutDropThenAdd
        /\ \A k \in 1..Len(Adders) :
               Elems(BadValueOfAdder(k)) = AddedBy(Adders[k].container)

\* In capabilitiesRestricted_1_22 with field errors enabled, the drop-related
\* errors of all containers precede the add-related errors in ErrList, and the
\* Forbidden error recorded at a container's securityContext.capabilities.add
\* carries the sorted list of the capabilities other than NET_BIND_SERVICE added
\* by this container or by a container visited before it.
C29_AddedCapabilities_SoFar ==
    (Called("capabilitiesRestricted_1_22") /\ TheOptions.withFieldErrors) =>
        /\ ErrorsAboutDropThenAdd
        /\ \A k \in 1..Len(Adders) :
               BadValueOfAdder(k)
                   = List(UNION { AddedBy(Adders[j].container) : j \in 1..k })

-----------------------------------------------------------------------------
(* restrictedVolumes: the offending values *)

\* restrictedVolumes_1_0 has returned, with field errors enabled, one error per
\* disallowed volume, and the error of the volume at index i carries the one-item
\* list [spec.volumes[i].<type>] for the type of the volume, nfsChild standing for
\* the type of an nfs volume; a pod with one disallowed volume is told the type
\* in the detail
BadVolumeValues(nfsChild) ==
    LET volumes == ThePod.Spec.Volumes
        bad == DisallowedVolumes(volumes)
    IN  /\ Len(TheCall.result.ErrList) = Len(bad)
        /\ \A k \in 1..Len(bad) :
               TheCall.result.ErrList[k].BadValue =
                   Ptr(<< "spec.volumes[" \o ToString(bad[k]) \o "]."
                          \o IF TypeOfVolume(volumes[bad[k] + 1]) = "nfs" THEN nfsChild
                             ELSE TypeOfVolume(volumes[bad[k] + 1]) >>)
        /\ Len(bad) = 1 =>
               TheCall.result.ForbiddenDetail =
                   "volume \"" \o volumes[bad[1] + 1].Name
                   \o "\" uses restricted volume type \""
                   \o TypeOfVolume(volumes[bad[1] + 1]) \o "\""

\* C30: In restrictedVolumes_1_0 with field errors enabled, for every disallowed
\* volume at index i the recorded bad value is [spec.volumes[i].<type>] where
\* <type> is the volume-source name that the rule puts into the set of bad volume
\* types for that volume (hostPath, nfs, iscsi, ..., or unknown), for every one of
\* the restricted volume types.
C30_BadVolumeValues ==
    (Called("restrictedVolumes_1_0") /\ TheOptions.withFieldErrors) =>
        BadVolumeValues("nfs")

\* In restrictedVolumes_1_0 with field errors enabled, for every disallowed
\* volume at index i the recorded bad value is [spec.volumes[i].<type>] where
\* <type> is the volume-source name that the rule puts into the set of bad volume
\* types, but for an nfs volume, whose bad value is [spec.volumes[i].gitRepo].
C30_BadVolumeValues_ButNFS ==
    (Called("restrictedVolumes_1_0") /\ TheOptions.withFieldErrors) =>
        BadVolumeValues("gitRepo")

====
